---- MODULE Spec2Model ----
(***************************************************************************)
(* A model of the caen_felib binding: the error taxonomy (error.py), the   *)
(* uniform error-checking wrapper of the foreign function table (lib.py),  *)
(* the typed data-format marshaler and the node abstraction (device.py)    *)
(* and the memoization of navigation calls (_utils.py).                    *)
(*                                                                         *)
(* The native library CAEN_FELib is the environment: the status of every   *)
(* native call is an input, a handle is valid while its device is open,    *)
(* and a successful read writes one event through the addresses passed.    *)
(***************************************************************************)
EXTENDS Integers, Sequences, FiniteSets, TLC

VARIABLES
    natOpen,    \* native side: the device sessions that are open
    nextSess,   \* native side: number of sessions opened so far
    natFmt,     \* native side: handle -> format registered by SetReadDataFormat
    opened,     \* Node.opened of the node Node.open() made for each session, while that node exists
    held,       \* the Node objects the caller holds: the nodes Node.open() made and those navigation gave
    cache,      \* entries of the lru_cache wrappers of Node.__node_cache_manager
    data,       \* the tuple of _Data the caller holds (result of set_read_data_format)
    pc,         \* position of the consumer read loop; "crashed" once the process was ended by a signal
    script,     \* statuses the native read reports to the consumer loop, and how many it has reported
    retries,    \* number of times the consumer loop went round after a TIMEOUT
    last,       \* the operation that ran last: its native calls and its outcome
    kept,       \* the tuple of _Data of an earlier set_read_data_format the caller still holds
    argtypes,   \* lib.read_data.argtypes, shared by all nodes and threads
    threads     \* the threads of a concurrent caller: position, tuple and native read of each

vars ==
    <<natOpen, nextSess, natFmt, opened, held, cache, data, pc, script, retries, last,
      kept, argtypes, threads>>

(***************************************************************************)
(* Bounds of the model.                                                    *)
(***************************************************************************)
MaxExtent == 2
MaxOpens == 1
MaxCached == 2
MaxNodes == 1
MaxTimeouts == 2
MaxSize == 4
MaxCalls == 3
MaxOthers == 129

Max(a, b) == IF a >= b THEN a ELSE b

ProductMutFirst(s) == IF s = <<>> THEN 1 ELSE Head(s)

RECURSIVE Product(_)
Product(s) == IF s = <<>> THEN 1 ELSE Head(s) * Product(Tail(s))

(***************************************************************************)
(* error.py: ErrorCode and Error.                                          *)
(***************************************************************************)
ErrorCodeMembersMutSwapped ==
    << [name |-> "SUCCESS", value |-> 0],
       [name |-> "GENERIC_ERROR", value |-> -1],
       [name |-> "INVALID_PARAM", value |-> -2],
       [name |-> "DEVICE_ALREADY_OPEN", value |-> -3],
       [name |-> "DEVICE_NOT_FOUND", value |-> -4],
       [name |-> "MAX_DEVICES_ERROR", value |-> -5],
       [name |-> "COMMAND_ERROR", value |-> -6],
       [name |-> "INTERNAL_ERROR", value |-> -7],
       [name |-> "NOT_IMPLEMENTED", value |-> -8],
       [name |-> "INVALID_HANDLE", value |-> -9],
       [name |-> "DEVICE_LIBRARY_NOT_AVAILABLE", value |-> -10],
       [name |-> "TIMEOUT", value |-> -12],
       [name |-> "STOP", value |-> -11],
       [name |-> "DISABLED", value |-> -13],
       [name |-> "BAD_LIBRARY_VERSION", value |-> -14],
       [name |-> "COMMUNICATION_ERROR", value |-> -15] >>

\* class ErrorCode(IntEnum)
ErrorCodeMembers ==
    << [name |-> "SUCCESS", value |-> 0],
       [name |-> "GENERIC_ERROR", value |-> -1],
       [name |-> "INVALID_PARAM", value |-> -2],
       [name |-> "DEVICE_ALREADY_OPEN", value |-> -3],
       [name |-> "DEVICE_NOT_FOUND", value |-> -4],
       [name |-> "MAX_DEVICES_ERROR", value |-> -5],
       [name |-> "COMMAND_ERROR", value |-> -6],
       [name |-> "INTERNAL_ERROR", value |-> -7],
       [name |-> "NOT_IMPLEMENTED", value |-> -8],
       [name |-> "INVALID_HANDLE", value |-> -9],
       [name |-> "DEVICE_LIBRARY_NOT_AVAILABLE", value |-> -10],
       [name |-> "TIMEOUT", value |-> -11],
       [name |-> "STOP", value |-> -12],
       [name |-> "DISABLED", value |-> -13],
       [name |-> "BAD_LIBRARY_VERSION", value |-> -14],
       [name |-> "COMMUNICATION_ERROR", value |-> -15] >>

ErrorCodeValues == {ErrorCodeMembers[i].value : i \in DOMAIN ErrorCodeMembers}

\* ErrorCode(res): the member whose value is res, or NoMember (a ValueError).
NoMember == [name |-> "", value |-> 1]

ErrorCode(res) ==
    IF res \in ErrorCodeValues
    THEN ErrorCodeMembers[CHOOSE i \in DOMAIN ErrorCodeMembers :
                              ErrorCodeMembers[i].value = res]
    ELSE NoMember

\* ErrorCode.NAME: the value of the member called name.
ErrorCodeValue(name) ==
    ErrorCodeMembers[CHOOSE i \in DOMAIN ErrorCodeMembers :
                         ErrorCodeMembers[i].name = name].value

TIMEOUT == ErrorCodeValue("TIMEOUT")
STOP == ErrorCodeValue("STOP")
INVALID_HANDLE == ErrorCodeValue("INVALID_HANDLE")

NegCodes == {v \in ErrorCodeValues : v < 0}

(***************************************************************************)
(* Outcomes of an operation: it returns a value or raises an exception.    *)
(***************************************************************************)
NoText == [text |-> "", of |-> "", st |-> 0]
PyText(s) == [text |-> s, of |-> "", st |-> 0]

PyNone == [t |-> "None"]
PyInt(n) == [t |-> "int", n |-> n]
PyStr(s) == [t |-> "str", s |-> s]
PyNodes(hs) == [t |-> "nodes", hs |-> hs]
PyProps(nm, ty) == [t |-> "props", name |-> nm, type |-> ty]
PyData(ds) == [t |-> "data", ds |-> ds]

Return(v) ==
    [kind |-> "return", exc |-> "", code |-> NoMember, message |-> NoText,
     func |-> "", value |-> v]

Raise(exc, message) ==
    [kind |-> "raise", exc |-> exc, code |-> NoMember, message |-> message,
     func |-> "", value |-> PyNone]

\* Error.__init__(message, res, func): ErrorCode(res) raises ValueError when
\* res is the value of no member.
NewError(message, res, func) ==
    IF res \in ErrorCodeValues
    THEN [kind |-> "raise", exc |-> "Error", code |-> ErrorCode(res),
          message |-> message, func |-> func, value |-> PyNone]
    ELSE Raise("ValueError", PyText("not a valid ErrorCode"))

(***************************************************************************)
(* lib.py: the wrapped entry points and the error-checking wrapper.        *)
(***************************************************************************)
WrappedEntryPoints ==
    { "CAEN_FELib_GetLibInfo", "CAEN_FELib_GetLibVersion",
      "CAEN_FELib_GetErrorName", "CAEN_FELib_GetErrorDescription",
      "CAEN_FELib_GetLastError", "CAEN_FELib_DevicesDiscovery",
      "CAEN_FELib_Open", "CAEN_FELib_Close", "CAEN_FELib_GetDeviceTree",
      "CAEN_FELib_GetChildHandles", "CAEN_FELib_GetParentHandle",
      "CAEN_FELib_GetHandle", "CAEN_FELib_GetPath",
      "CAEN_FELib_GetNodeProperties", "CAEN_FELib_GetValue",
      "CAEN_FELib_SetValue", "CAEN_FELib_GetUserRegister",
      "CAEN_FELib_SetUserRegister", "CAEN_FELib_SendCommand",
      "CAEN_FELib_SetReadDataFormat", "CAEN_FELib_HasData",
      "CAEN_FELib_ReadData" }

\* Environment: the description the library keeps of its last error, the
\* failure of entry point f with status st.
NatLastErrorText(f, st) == [text |-> "last error", of |-> f, st |-> st]

\* The interpreter's recursion limit ends a nesting where it strikes: in a
\* Python frame, which raises RecursionError, or inside the conversion of
\* the arguments of the next native call, where ctypes wraps it in
\* ctypes.ArgumentError, which is no RecursionError. Which of the two
\* depends on the depth of the stack at the first call.
RecursionOutcomes == {"RecursionError", "ArgumentError"}
RecursionStrike(limit) ==
    IF limit = "ArgumentError"
    THEN Raise("ArgumentError",
               PyText("argument 1: RecursionError: maximum recursion depth exceeded while calling a Python object"))
    ELSE Raise("RecursionError", PyText("maximum recursion depth exceeded"))

\* _Lib.last_error -> get_last_error(): the call of CAEN_FELib_GetLastError
\* goes through the same errcheck. gle.sts is the sequence of statuses the
\* successive native GetLastError calls return; a sequence of negative
\* statuses only stands for a library whose GetLastError keeps failing, where
\* the nesting ends at the interpreter's recursion limit, in the way
\* gle.limit says.
RECURSIVE LastError(_, _, _)
LastError(gle, f, st) ==
    IF gle.sts = <<>>
    THEN RecursionStrike(gle.limit)
    ELSE IF Head(gle.sts) >= 0
         THEN Return(PyStr(NatLastErrorText(f, st)))
         ELSE LET inner == LastError([gle EXCEPT !.sts = Tail(@)],
                                     "CAEN_FELib_GetLastError", Head(gle.sts))
              IN  IF inner.kind = "raise"
                  THEN inner
                  ELSE NewError(inner.value.s, Head(gle.sts),
                                "CAEN_FELib_GetLastError")

ApiErrcheckMutNonPositive(res, func, gle) ==
    IF res <= 0
    THEN LET le == LastError(gle, func, res)
         IN  IF le.kind = "raise" THEN le ELSE NewError(le.value.s, res, func)
    ELSE Return(PyInt(res))

\* _Lib.__api_errcheck(res, func, _)
ApiErrcheck(res, func, gle) ==
    IF res < 0
    THEN LET le == LastError(gle, func, res)
         IN  IF le.kind = "raise" THEN le ELSE NewError(le.value.s, res, func)
    ELSE Return(PyInt(res))

\* Environment: CAEN_FELib_GetLastError, given a valid 1024 byte buffer,
\* succeeds.
GleOk == [sts |-> <<0>>, limit |-> "RecursionError"]

\* _Lib.__load_api: the argument types declared for CAEN_FELib_ReadData, the
\* two parameters that are not variadic.
LoadedArgtypes == <<"c_uint64", "c_int">>

\* A Node object is known by a number: its handle plus ObjStride times a
\* serial number that tells the objects made for one handle apart. The node
\* Node.open() makes has serial 0; it is the only kind whose root_node is
\* None and whose opened flag starts set.
ObjStride == 256
HandleOf(o) == o % ObjStride
SerialOf(o) == o \div ObjStride

\* One native call as the operations record it; a call on a node passes the
\* handle of the node.
NatCall(f, h, ints, st) == [f |-> f, h |-> HandleOf(h), ints |-> ints, st |-> st]

(***************************************************************************)
(* Environment: the handle tree of the native library. Every Open starts a *)
(* new session with handles of its own; a handle is valid while its        *)
(* session is open, and every call on an invalid handle reports            *)
(* INVALID_HANDLE.                                                         *)
(***************************************************************************)
HandleStride == 32
TreeNodes == 0..17
TreeKids(i) == IF i = 0 THEN <<1>> ELSE <<>>
TreeParent(i) == IF i = 1 THEN 0 ELSE -1
TreeName(i) == IF i = 0 THEN "dig" ELSE "scope"
TreeType(i) == IF i = 0 THEN "DIGITIZER" ELSE "ENDPOINT"
TreePath(i) == IF i = 0 THEN "/" ELSE "/endpoint/scope"

Handle(s, i) == s * HandleStride + i
Sess(h) == HandleOf(h) \div HandleStride
Idx(h) == HandleOf(h) % HandleStride
HandleValid(h) == Sess(h) \in natOpen /\ Idx(h) \in TreeNodes

\* Node.__init__: the node made by Node.open(), as against a node made by a
\* navigation method, which may carry the handle of the root as well.
IsRoot(o) == Idx(o) = 0 /\ SerialOf(o) = 0

\* The statuses a native call on handle h may report, S on a valid handle.
NatStatus(h, S) == IF HandleValid(h) THEN S ELSE {INVALID_HANDLE}

(***************************************************************************)
(* device.py: _type_map, as the item size of the numpy dtype of each       *)
(* ctypes type (LP64 platform).                                            *)
(***************************************************************************)
TypeMapMutUnderscore ==
    ("U8" :> 1) @@ ("U16" :> 2) @@ ("U32" :> 4) @@ ("U64" :> 8) @@
    ("I8" :> 1) @@ ("I16" :> 2) @@ ("I32" :> 4) @@ ("I64" :> 8) @@
    ("CHAR" :> 1) @@ ("BOOL" :> 1) @@ ("SIZE_T" :> 8) @@
    ("FLOAT" :> 4) @@ ("DOUBLE" :> 8) @@ ("LONG_DOUBLE" :> 16)

TypeMap ==
    ("U8" :> 1) @@ ("U16" :> 2) @@ ("U32" :> 4) @@ ("U64" :> 8) @@
    ("I8" :> 1) @@ ("I16" :> 2) @@ ("I32" :> 4) @@ ("I64" :> 8) @@
    ("CHAR" :> 1) @@ ("BOOL" :> 1) @@ ("SIZE_T" :> 8) @@
    ("FLOAT" :> 4) @@ ("DOUBLE" :> 8) @@ ("LONG DOUBLE" :> 16)

(***************************************************************************)
(* Environment: the allocator. A block gets an aligned address of its own, *)
(* also when it holds no element; the blocks of one tuple lie in one       *)
(* arena, and a new tuple never shares an arena with the tuple the caller  *)
(* still holds.                                                            *)
(***************************************************************************)
Align == 16
PointerSize == 8
AlignUp(n) == ((Max(n, 1) + Align - 1) \div Align) * Align
ArenaSize == Align * 4 * (2 + (MaxExtent + 1) * (MaxExtent + 1))
ArenaBase(k) == (k + 1) * ArenaSize
\* No block lies below the first arena: event data, a small number, is no
\* address of a block.
IsAddress(p) == p >= ArenaBase(0)

\* An allocation as the operations record it.
AllocEvent(base, nbytes) ==
    [f |-> "alloc", h |-> 0, ints |-> <<base, nbytes>>, st |-> 0]

(***************************************************************************)
(* device.py: _Data.                                                       *)
(***************************************************************************)
NoProxy == [present |-> FALSE, base |-> 0, ptrs |-> <<>>]

FieldDim(f) == IF "dim" \in DOMAIN f THEN f.dim ELSE 0
FieldShape(f) == IF "shape" \in DOMAIN f THEN f.shape ELSE <<>>

\* Environment: numpy. The code asks for no release of numpy, and the
\* releases differ in the strides np.empty gives an array without elements:
\* "zero" sets every stride to 0, "filled" fills the strides as for any
\* C-contiguous array, counting an extent of 0 as 1. mem is what a
\* construction finds: the first free address and the numpy at work.
NumpyBuilds == {"zero", "filled"}
Mem(brk, np) == [brk |-> brk, np |-> np]

\* Number of items the iteration `for v in self.value` yields, and the
\* distance in bytes between two of them: strides[0] of an array of two
\* dimensions.
NRows(shape) == IF shape = <<>> THEN 0 ELSE Head(shape)
RowStride(shape, itemsize, np) ==
    IF Product(shape) = 0 /\ np = "zero" THEN 0
    ELSE itemsize * Product([i \in DOMAIN Tail(shape) |->
                                IF Tail(shape)[i] = 0 THEN 1 ELSE Tail(shape)[i]])
\* v.ctypes.data of item i of the iteration.
RowAddr(d, i) == d.value.base + i * d.value.stride

\* The part of the value a stamp is kept for: each row when dim >= 2, the
\* whole buffer otherwise. Stamp 0 is the indeterminate content np.empty
\* leaves.
NParts(dim, shape) == IF dim >= 2 THEN NRows(shape) ELSE 1

\* _Data.__generate_arg: the proxy array and the address read_data passes.
GenerateArgMutContiguous(d, brk) ==
    [d |-> [d EXCEPT !.arg = d.value.base], brk |-> brk, log |-> <<>>]

GenerateArgMutRowIndex(d, brk) ==
    IF d.dim < 2
    THEN [d |-> [d EXCEPT !.arg = d.value.base], brk |-> brk, log |-> <<>>]
    ELSE LET n == NRows(d.shape)
             ptrs == [i \in 1..n |->
                         RowAddr(d, i)]
             nbytes == n * PointerSize
         IN  [d |-> [d EXCEPT !.proxy = [present |-> TRUE, base |-> brk,
                                         ptrs |-> ptrs],
                              !.arg = brk],
              brk |-> brk + AlignUp(nbytes),
              log |-> <<AllocEvent(brk, nbytes)>>]

GenerateArg(d, brk) ==
    IF d.dim < 2
    THEN [d |-> [d EXCEPT !.arg = d.value.base], brk |-> brk, log |-> <<>>]
    ELSE LET n == NRows(d.shape)
             ptrs == [i \in 1..n |->
                         RowAddr(d, i - 1)]
             nbytes == n * PointerSize
         IN  [d |-> [d EXCEPT !.proxy = [present |-> TRUE, base |-> brk,
                                         ptrs |-> ptrs],
                              !.arg = brk],
              brk |-> brk + AlignUp(nbytes),
              log |-> <<AllocEvent(brk, nbytes)>>]

\* _Data.__init__(data_field): ok with the new _Data, or the exception.
DataInit(f, mem) ==
    LET dim == FieldDim(f)
        shape == FieldShape(f)
        brk == mem.brk
        fail(o) == [ok |-> FALSE, out |-> o, brk |-> brk, log |-> <<>>]
    IN  IF "name" \notin DOMAIN f THEN fail(Raise("KeyError", PyText("name")))
        ELSE IF "type" \notin DOMAIN f THEN fail(Raise("KeyError", PyText("type")))
        ELSE IF dim # Len(shape)
             THEN fail(Raise("RuntimeError", PyText("shape length must match dim")))
        ELSE IF f.type \notin DOMAIN TypeMap
             THEN fail(Raise("KeyError", PyText(f.type)))
        ELSE LET itemsize == TypeMap[f.type]
                 nbytes == itemsize * Product(shape)
                 d0 == [name |-> f.name, type |-> f.type, dim |-> dim,
                        shape |-> shape, itemsize |-> itemsize,
                        value |-> [base |-> brk, nbytes |-> nbytes,
                                   stride |-> IF dim >= 2
                                              THEN RowStride(shape, itemsize, mem.np)
                                              ELSE 0,
                                   parts |-> [j \in 1..NParts(dim, shape) |-> 0]],
                        proxy |-> NoProxy,
                        arg |-> 0]
                 g == GenerateArg(d0, brk + AlignUp(nbytes))
             IN  [ok |-> TRUE, out |-> Return(PyNone), d |-> g.d, brk |-> g.brk,
                  log |-> <<AllocEvent(brk, nbytes)>> \o g.log]

\* tuple(_Data(f) for f in fmt): the fields are built in order, and the
\* first that raises ends the construction.
RECURSIVE BuildData(_, _, _, _)
BuildData(fmt, acc, mem, log) ==
    IF fmt = <<>>
    THEN [out |-> Return(PyData(acc)), log |-> log]
    ELSE LET r == DataInit(Head(fmt), mem)
         IN  IF r.ok
             THEN BuildData(Tail(fmt), Append(acc, r.d), Mem(r.brk, mem.np),
                            log \o r.log)
             ELSE [out |-> r.out, log |-> log]

(***************************************************************************)
(* Environment: what the native library keeps of a registered format (the  *)
(* shape entry is an extension of the binding the library does not read),  *)
(* and what a successful read writes: the event goes through the addresses *)
(* passed, field by field; for a field of dim 2 the address is that of an  *)
(* array of row addresses, and row j goes through entry j.                 *)
(***************************************************************************)
NatParse(fmt) ==
    [i \in DOMAIN fmt |->
        [name |-> IF "name" \in DOMAIN fmt[i] THEN fmt[i].name ELSE "",
         type |-> IF "type" \in DOMAIN fmt[i] THEN fmt[i].type ELSE "",
         dim |-> FieldDim(fmt[i])]]

NatHits(d, ndim, a, j) ==
    IF ndim < 2
    THEN a = d.value.base
    ELSE /\ d.proxy.present
         /\ a = d.proxy.base
         /\ j <= Len(d.proxy.ptrs)
         /\ d.proxy.ptrs[j] = RowAddr(d, j - 1)

NatReadWrite(ds, nfmt, addrs, evt) ==
    [i \in DOMAIN ds |->
        IF i > Len(nfmt) \/ i > Len(addrs)
        THEN ds[i]
        ELSE LET d == ds[i]
                 parts == [j \in DOMAIN d.value.parts |->
                              IF NatHits(d, nfmt[i].dim, addrs[i], j)
                              THEN evt ELSE d.value.parts[j]]
             IN  [d EXCEPT !.value = [d.value EXCEPT !.parts = parts]]]

(***************************************************************************)
(* device.py: Node.set_read_data_format, Node.read_data, Node.has_data.    *)
(* Each handler returns its outcome and the log of the native calls and    *)
(* allocations it made, in order.                                          *)
(***************************************************************************)
\* The unsafe variant the comment in set_read_data_format describes:
\* lib.ReadData.argtypes = [ct.c_uint64, ct.c_int] + [d.argtype for d in data]
ArgtypesAfterSetFormatMutUpdate(a, ds) ==
    LoadedArgtypes \o [i \in DOMAIN ds |-> ds[i].type]

\* set_read_data_format leaves the argtypes of lib.read_data what they are.
ArgtypesAfterSetFormat(a, ds) == a

\* ctypes on a call of lib.read_data(handle, timeout, *args): the declared
\* argtypes convert the leading arguments and further arguments are passed
\* as they are; fewer arguments than argtypes, or an argument that is not of
\* its declared type, is an error raised before the native call.
Marshal(a, ds) ==
    IF Len(ds) + 2 < Len(a) THEN "TypeError"
    ELSE IF \E i \in DOMAIN ds : i + 2 <= Len(a) /\ a[i + 2] # ds[i].type
         THEN "ArgumentError"
    ELSE "ok"

SetReadDataFormatMutAllocFirst(h, fmt, st, mem) ==
    LET call == NatCall("CAEN_FELib_SetReadDataFormat", h, <<>>, st)
        b == BuildData(fmt, <<>>, mem, <<>>)
        chk == ApiErrcheck(st, call.f, GleOk)
    IN  IF b.out.kind = "raise"
        THEN [out |-> b.out, log |-> b.log]
        ELSE [out |-> IF chk.kind = "raise" THEN chk ELSE b.out,
              log |-> b.log \o <<call>>]

SetReadDataFormatRun(h, fmt, st, mem) ==
    LET call == NatCall("CAEN_FELib_SetReadDataFormat", h, <<>>, st)
        chk == ApiErrcheck(st, call.f, GleOk)
    IN  IF chk.kind = "raise"
        THEN [out |-> chk, log |-> <<call>>]
        ELSE LET b == BuildData(fmt, <<>>, mem, <<>>)
             IN  [out |-> b.out, log |-> <<call>> \o b.log]

ReadDataArgsMutReversed(ds) == [i \in DOMAIN ds |-> ds[Len(ds) + 1 - i].arg]

\* *(d.arg for d in data)
ReadDataArgs(ds) == [i \in DOMAIN ds |-> ds[i].arg]

RECURSIVE RebuildArgs(_, _, _)
RebuildArgs(ds, acc, brk) ==
    IF ds = <<>> THEN acc
    ELSE LET g == GenerateArg(Head(ds), brk)
         IN  RebuildArgs(Tail(ds), Append(acc, g.d), g.brk)

ReadDataRunMutRebuild(h, timeout, ds, st) ==
    LET nds == RebuildArgs(ds, <<>>, ArenaBase(2))
        call == NatCall("CAEN_FELib_ReadData", h, <<timeout>> \o ReadDataArgs(nds), st)
        chk == ApiErrcheck(st, call.f, GleOk)
    IN  [out |-> IF chk.kind = "raise" THEN chk ELSE Return(PyNone),
         log |-> <<call>>, ds |-> nds]

\* Node.read_data(timeout, data): ds is the tuple as the handler leaves it.
ReadDataRun(h, timeout, ds, st) ==
    LET call == NatCall("CAEN_FELib_ReadData", h, <<timeout>> \o ReadDataArgs(ds), st)
        chk == ApiErrcheck(st, call.f, GleOk)
    IN  [out |-> IF chk.kind = "raise" THEN chk ELSE Return(PyNone),
         log |-> <<call>>, ds |-> ds]

HasDataRun(h, timeout, st) ==
    LET call == NatCall("CAEN_FELib_HasData", h, <<timeout>>, st)
        chk == ApiErrcheck(st, call.f, GleOk)
    IN  [out |-> IF chk.kind = "raise" THEN chk ELSE Return(PyNone),
         log |-> <<call>>]

\* The native calls of a log, and whether one of them registered a format.
NativeCalls(log) == SelectSeq(log, LAMBDA e : e.f # "alloc")
Allocations(log) == SelectSeq(log, LAMBDA e : e.f = "alloc")
Registered(log) ==
    \E i \in DOMAIN log :
        log[i].f = "CAEN_FELib_SetReadDataFormat" /\ log[i].st >= 0

\* The consumer loop has no script outside its own specification.
NoScript == [all |-> <<>>, pos |-> 0]
NoData == [node |-> 0, arena |-> 0, fmt |-> <<>>, fields |-> <<>>]
NoLast == [op |-> "", node |-> 0, arg |-> 0, evt |-> 0, badShape |-> FALSE,
           log |-> <<>>, out |-> Return(PyNone)]

\* Whether a format has a field whose dim differs from the length of its shape.
HasMismatch(fmt) ==
    \E i \in DOMAIN fmt : FieldDim(fmt[i]) # Len(FieldShape(fmt[i]))

\* The record of an operation: its name, the node it ran on, its integer
\* argument (the timeout of a read), the event the native library delivered
\* to a read, its log and its outcome.
Last(op, h, n, fmt, r) ==
    [op |-> op, node |-> h, arg |-> n, evt |-> 0, badShape |-> HasMismatch(fmt),
     log |-> r.log, out |-> r.out]

\* One call of set_read_data_format with the numpy np; what becomes of the
\* tuple the caller held before is the caller's business.
SetReadDataFormatWith(h, fmt, st, np) ==
    LET arena == 1 - data.arena
        r == SetReadDataFormatRun(h, fmt, st, Mem(ArenaBase(arena), np))
    IN  /\ natFmt' = IF Registered(r.log) THEN (h :> NatParse(fmt)) @@ natFmt
                     ELSE natFmt
        /\ data' = IF r.out.kind = "return"
                   THEN [node |-> h, arena |-> arena, fmt |-> NatParse(fmt),
                         fields |-> r.out.value.ds]
                   ELSE data
        /\ last' = Last("set_read_data_format", h, 0, fmt, r)
        /\ UNCHANGED <<natOpen, nextSess, opened, held, cache, pc, script, retries,
                       argtypes, threads>>

\* The numpy makes a difference for a format with an array of two
\* dimensions without elements only.
Builds(fmt) ==
    IF \E i \in DOMAIN fmt :
          /\ "shape" \in DOMAIN fmt[i]
          /\ Len(fmt[i].shape) >= 2
          /\ Product(fmt[i].shape) = 0
    THEN NumpyBuilds ELSE {"zero"}

SetReadDataFormatStep(h, fmt, st) ==
    \E np \in Builds(fmt) : SetReadDataFormatWith(h, fmt, st, np)

SetReadDataFormat(h, fmt, st) ==
    /\ SetReadDataFormatStep(h, fmt, st)
    /\ UNCHANGED kept

\* The fields whose proxy array no longer starts with the address of the
\* value: the value was replaced, or a native write landed on the proxy
\* array.
Stale(dt) ==
    { k \in DOMAIN dt.fields :
        /\ dt.fields[k].proxy.present
        /\ dt.fields[k].proxy.ptrs # <<>>
        /\ dt.fields[k].proxy.ptrs[1] # dt.fields[k].value.base }

\* The caller reads into the tuple it got for the format registered last on
\* the node, or passes the empty tuple while the node has no field
\* registered.
FormatMatches(h) ==
    \/ /\ data = NoData
       /\ (HandleValid(h) /\ h \in DOMAIN natFmt) => natFmt[h] = <<>>
    \/ /\ data.node = h
       /\ HandleValid(h) => (h \in DOMAIN natFmt /\ natFmt[h] = data.fmt)

\* The reads whose behaviour is defined: the tuple matches the registered
\* format and its proxy arrays are as they were built.
CanRead(h) == FormatMatches(h) /\ Stale(data) = {}

\* One call of read_data on the tuple the caller holds, without the frame of
\* the consumer loop.
ReadDataDefined(h, timeout, st, evt) ==
    LET r == ReadDataRun(h, timeout, data.fields, st)
        addrs == Tail(r.log[1].ints)
    IN  /\ data' = [data EXCEPT !.fields =
                       IF r.log[1].st = 0
                       THEN NatReadWrite(r.ds, data.fmt, addrs, evt)
                       ELSE r.ds]
        /\ last' = [Last("read_data", h, timeout, <<>>, r) EXCEPT !.evt = evt]
        /\ UNCHANGED <<natOpen, nextSess, natFmt, opened, held, cache, argtypes,
                       threads>>

ReadDataStep(h, timeout, st, evt) ==
    /\ CanRead(h)
    /\ ReadDataDefined(h, timeout, st, evt)

ReadData(h, timeout, st, evt) ==
    /\ ReadDataStep(h, timeout, st, evt)
    /\ UNCHANGED <<pc, script, retries, kept>>

\* The process is ended by a signal.
Crash == [Return(PyNone) EXCEPT !.kind = "crash"]

\* The address of part j of the value of a _Data.
PartAddr(d, j) ==
    IF d.dim >= 2 THEN RowAddr(d, j - 1) ELSE d.value.base

\* Environment: the addresses a native read writes to, given the addresses
\* passed for a registered format; mem holds the _Data whose proxy arrays
\* are in memory.
NatTargets(nfmt, addrs, mem) ==
    { addrs[i] : i \in {n \in DOMAIN addrs : n <= Len(nfmt) /\ nfmt[n].dim < 2} }
    \cup
    UNION { { mem[m].proxy.ptrs[j] : j \in DOMAIN mem[m].proxy.ptrs } :
              m \in { n \in DOMAIN mem :
                        /\ mem[n].proxy.present
                        /\ \E i \in DOMAIN addrs :
                              /\ i <= Len(nfmt)
                              /\ nfmt[i].dim >= 2
                              /\ addrs[i] = mem[n].proxy.base } }

\* Environment: the buffers ds after a write of evt to the addresses
\* targets. A write to the address of a value lands in the value; a write to
\* the address of a proxy array lands on its first entry, which then holds
\* event data, evt, where it held the address of the first row.
MemWrite(ds, targets, evt) ==
    [i \in DOMAIN ds |->
        [ds[i] EXCEPT
            !.value.parts =
                [j \in DOMAIN @ |->
                    IF PartAddr(ds[i], j) \in targets THEN evt ELSE @[j]],
            !.proxy.ptrs =
                [j \in DOMAIN @ |->
                    IF ds[i].proxy.present /\ j = 1 /\ ds[i].proxy.base \in targets
                    THEN evt ELSE @[j]]]]

\* read_data on a tuple that was not made for the format the node has
\* registered (the empty tuple, or the tuple of an earlier format, on a
\* node whose format was registered by a set_read_data_format that raised
\* afterwards), or on a tuple with a proxy array a native write has landed
\* on. The native read takes one address per registered field from the
\* variadic arguments, passed or not, and uses each as the registered field
\* says: it writes a field of dim < 2 to the address itself, also when that
\* is the address of a proxy array, and a field of dim 2 through the row
\* addresses it finds there, also when the first of them is event data. The
\* behaviour is undefined: the process is ended by a signal (crash), or the
\* call returns with status st, having written to the addresses that lie in
\* the values and proxy arrays of the tuple and, for the rest, where the
\* model keeps no buffer.
ReadDataUndefined(h, timeout, st, evt, crash) ==
    LET r == ReadDataRun(h, timeout, data.fields, st)
        targets == NatTargets(natFmt[h], Tail(r.log[1].ints), data.fields)
    IN  /\ data # NoData => data.node = h
        /\ ~CanRead(h)
        /\ h \in DOMAIN natFmt
        /\ crash => (st = 0 \/ ~FormatMatches(h))
        /\ data' = IF st = 0 /\ ~crash
                   THEN [data EXCEPT !.fields = MemWrite(@, targets, evt)]
                   ELSE data
        /\ last' = [Last("read_data", h, timeout, <<>>, r) EXCEPT
                       !.evt = evt, !.out = IF crash THEN Crash ELSE @]
        /\ pc' = IF crash THEN "crashed" ELSE pc
        /\ UNCHANGED <<natOpen, nextSess, natFmt, opened, held, cache,
                       script, retries, kept, argtypes, threads>>

HasData(h, timeout, st) ==
    /\ last' = Last("has_data", h, timeout, <<>>, HasDataRun(h, timeout, st))
    /\ UNCHANGED <<natOpen, nextSess, natFmt, opened, held, cache, data, pc, script,
                   retries, kept, argtypes, threads>>

(***************************************************************************)
(* The inputs of the marshaler: field descriptions with and without the    *)
(* optional keys, every shape up to MaxExtent, and formats of up to two    *)
(* fields.                                                                 *)
(***************************************************************************)
Extents == 0..MaxExtent

ScalarFields ==
    { [name |-> "E", type |-> "U16"],
      [name |-> "T", type |-> "U64", dim |-> 0, shape |-> <<>>] }
VectorFields ==
    { [name |-> "S", type |-> "U8", dim |-> 1, shape |-> <<n>>] : n \in Extents }
MatrixFields ==
    { [name |-> "W", type |-> "U16", dim |-> 2, shape |-> <<r, c>>] :
        r, c \in Extents }
MismatchFields ==
    { f \in [name : {"W"}, type : {"U16"}, dim : 0..2,
             shape : {<<>>, <<MaxExtent>>, <<MaxExtent, MaxExtent>>}] :
        f.dim # Len(f.shape) }
    \cup { [name |-> "X", type |-> "U16", dim |-> 1],
           [name |-> "X", type |-> "U16", shape |-> <<MaxExtent>>] }
UnknownTypeFields ==
    { [name |-> "P", type |-> "PTRDIFF_T"] }

FieldSet ==
    ScalarFields \cup VectorFields \cup MatrixFields \cup MismatchFields
        \cup UnknownTypeFields
PairFields ==
    { [name |-> "E", type |-> "U16"],
      [name |-> "S", type |-> "U8", dim |-> 1, shape |-> <<MaxExtent>>],
      [name |-> "W", type |-> "U16", dim |-> 2, shape |-> <<MaxExtent, MaxExtent>>],
      [name |-> "W", type |-> "U16", dim |-> 2, shape |-> <<MaxExtent>>] }
FormatLists ==
    {<<>>} \cup {<<f>> : f \in FieldSet} \cup {<<f, g>> : f, g \in PairFields}

EnergyFormat == << [name |-> "E", type |-> "U16"] >>
Timeouts == {-1, 100}
Events == {1, 2}
SetFormatStatuses == {0, ErrorCodeValue("INVALID_PARAM")}
ReadStatuses == {0} \cup NegCodes
SomeReadStatuses == {0, TIMEOUT, STOP}

(***************************************************************************)
(* The marshaler on one endpoint of an open digitizer.                     *)
(***************************************************************************)
Endpoint == Handle(1, 1)

InitData ==
    /\ natOpen = {1}
    /\ nextSess = 1
    /\ natFmt = <<>>
    /\ opened = <<TRUE>>
    /\ held = {Endpoint}
    /\ cache = {}
    /\ data = NoData
    /\ pc = "idle"
    /\ script = NoScript
    /\ retries = 0
    /\ kept = NoData
    /\ argtypes = LoadedArgtypes
    /\ threads = <<>>
    /\ last = NoLast

DataSetFormat ==
    /\ pc = "idle"
    /\ \E fmt \in FormatLists : \E st \in NatStatus(Endpoint, SetFormatStatuses) :
          SetReadDataFormat(Endpoint, fmt, st)

DataRead ==
    /\ pc = "idle"
    /\ \E t \in Timeouts : \E st \in NatStatus(Endpoint, SomeReadStatuses) :
          \E evt \in IF st = 0 THEN Events ELSE {0} :
              ReadData(Endpoint, t, st, evt)

DataReadUndefined ==
    /\ pc = "idle"
    /\ \E st \in NatStatus(Endpoint, SomeReadStatuses) : \E crash \in BOOLEAN :
          ReadDataUndefined(Endpoint, 100, st, IF st = 0 THEN 1 ELSE 0, crash)

NextData == DataSetFormat \/ DataRead \/ DataReadUndefined

SpecData == InitData /\ [][NextData]_vars

(***************************************************************************)
(* Claims about the marshaler.                                             *)
(***************************************************************************)
ShapeMismatchError == Raise("RuntimeError", PyText("shape length must match dim"))

\* C1: whenever the format given to set_read_data_format has a field whose
\* dim differs from len(shape), the call fails with the shape-mismatch error
\* and has made no native call.
C1_MismatchFailsBeforeRegistration ==
    (last.op = "set_read_data_format" /\ last.badShape)
        => /\ last.out = ShapeMismatchError
           /\ NativeCalls(last.log) = <<>>

\* C2: in set_read_data_format every allocation comes after a registration
\* call that succeeded; when the registration call reports a negative status
\* the library error for that status is raised, nothing has been allocated
\* and no tuple is returned.
C2_RegistrationBeforeAllocation ==
    last.op = "set_read_data_format"
        => /\ \A i \in DOMAIN last.log :
                last.log[i].f = "alloc"
                    => \E j \in 1..(i - 1) :
                          /\ last.log[j].f = "CAEN_FELib_SetReadDataFormat"
                          /\ last.log[j].st >= 0
           /\ \A j \in DOMAIN last.log :
                (last.log[j].f = "CAEN_FELib_SetReadDataFormat" /\ last.log[j].st < 0)
                    => /\ last.out.kind = "raise"
                       /\ last.out.exc = "Error"
                       /\ last.out.code.value = last.log[j].st
                       /\ last.out.func = "CAEN_FELib_SetReadDataFormat"
                       /\ Allocations(last.log) = <<>>
                       /\ last.out.value = PyNone

C2_Witness ==
    /\ last.op = "set_read_data_format"
    /\ Len(last.log) = 1
    /\ last.log[1].st < 0
    /\ last.out.exc = "Error"
    /\ data.node # 0

\* C7: read_data passes the handle, the timeout and then one address per
\* field of the tuple, in the order of the fields of the format: the address
\* of the value buffer when dim < 2, of the proxy array when dim = 2.
C7_ReadPassesFieldAddressesInOrder ==
    last.op = "read_data"
        => LET c == last.log[1]
           IN  /\ Len(last.log) = 1
               /\ c.f = "CAEN_FELib_ReadData"
               /\ c.h = last.node
               /\ Len(c.ints) = 1 + Len(data.fields)
               /\ c.ints[1] = last.arg
               /\ Len(data.fields) = Len(data.fmt)
               /\ \A i \in DOMAIN data.fields :
                    /\ data.fields[i].name = data.fmt[i].name
                    /\ data.fields[i].dim = data.fmt[i].dim
                    /\ c.ints[i + 1] = IF data.fields[i].dim < 2
                                       THEN data.fields[i].value.base
                                       ELSE data.fields[i].proxy.base

C7_Witness ==
    /\ last.op = "read_data"
    /\ Len(data.fields) = 2
    /\ data.fields[1].dim = 2
    /\ data.fields[2].dim = 1
    /\ last.log[1].ints[2] # last.log[1].ints[3]

\* C8 as stated: the proxy array of a field of dim 2 and shape [R, C] that
\* set_read_data_format has built has R entries, and entry i is
\* base + i * C * element width, also when R or C is 0.
C8_ProxyHoldsRowAddresses ==
    (last.op = "set_read_data_format" /\ last.out.kind = "return")
      => \A k \in DOMAIN data.fields :
            LET d == data.fields[k]
            IN  d.dim = 2
                  => /\ d.proxy.present
                     /\ Len(d.proxy.ptrs) = d.shape[1]
                     /\ d.itemsize = TypeMap[d.type]
                     /\ \A i \in 0..(d.shape[1] - 1) :
                          d.proxy.ptrs[i + 1] =
                              d.value.base + i * d.shape[2] * d.itemsize

\* C8 with the rows where numpy puts them: the proxy array of a field of
\* dim 2 and shape [R, C] that set_read_data_format has built has R entries;
\* with C >= 1 entry i is base + i * C * element width; with C = 0, where
\* the rows have no element, the entries are all base or entry i is
\* base + i * element width, as the numpy at work lays out an array without
\* elements.
C8_ProxyHoldsRowsOfValue ==
    (last.op = "set_read_data_format" /\ last.out.kind = "return")
      => \A k \in DOMAIN data.fields :
            LET d == data.fields[k]
                rows == 0..(d.shape[1] - 1)
            IN  d.dim = 2
                  => /\ d.proxy.present
                     /\ Len(d.proxy.ptrs) = d.shape[1]
                     /\ d.itemsize = TypeMap[d.type]
                     /\ d.shape[2] >= 1
                          => \A i \in rows :
                                d.proxy.ptrs[i + 1] =
                                    d.value.base + i * d.shape[2] * d.itemsize
                     /\ d.shape[2] = 0
                          => \/ \A i \in rows : d.proxy.ptrs[i + 1] = d.value.base
                             \/ \A i \in rows :
                                   d.proxy.ptrs[i + 1] = d.value.base + i * d.itemsize

C8_Witness ==
    /\ last.op = "set_read_data_format"
    /\ last.out.kind = "return"
    /\ \E k \in DOMAIN data.fields :
          /\ data.fields[k].dim = 2
          /\ data.fields[k].shape = <<MaxExtent, MaxExtent>>
          /\ Len(data.fields[k].proxy.ptrs) >= 2
          /\ data.fields[k].proxy.ptrs[2] > data.fields[k].proxy.ptrs[1]

\* The identity of a tuple: everything but the content of the value buffers.
Identity(dt) ==
    [node |-> dt.node, arena |-> dt.arena, fmt |-> dt.fmt,
     fields |-> [i \in DOMAIN dt.fields |->
                    [dt.fields[i] EXCEPT !.value =
                        [base |-> dt.fields[i].value.base,
                         nbytes |-> dt.fields[i].value.nbytes,
                         stride |-> dt.fields[i].value.stride]]]]

\* The objects of a tuple: its identity without the entries of the proxy
\* arrays.
Objects(dt) ==
    [node |-> dt.node, arena |-> dt.arena, fmt |-> dt.fmt,
     fields |-> [i \in DOMAIN dt.fields |->
                    [Identity(dt).fields[i] EXCEPT !.proxy =
                        [present |-> dt.fields[i].proxy.present,
                         base |-> dt.fields[i].proxy.base,
                         len |-> Len(dt.fields[i].proxy.ptrs)]]]]

Blocks(dt) ==
    { <<dt.fields[k].value.base,
        dt.fields[k].value.base + Max(dt.fields[k].value.nbytes, 1)>> :
          k \in DOMAIN dt.fields }
    \cup
    { <<dt.fields[k].proxy.base,
        dt.fields[k].proxy.base
          + Max(Len(dt.fields[k].proxy.ptrs) * PointerSize, 1)>> :
          k \in {n \in DOMAIN dt.fields : dt.fields[n].proxy.present} }

Overlap(b, c) == b[1] < c[2] /\ c[1] < b[2]

(***************************************************************************)
(* The caller replaces the value buffer of a field: value is a public      *)
(* field of _Data. Nothing else of the _Data changes: arg, which is the    *)
(* ctypes view of the first array of a field of dim < 2, keeps that array  *)
(* alive; the first array of a field of dim 2 is freed, and the rows of    *)
(* its proxy array point into the freed block.                             *)
(***************************************************************************)
ReplBase(k) == ArenaBase(2) + (k - 1) * (ArenaSize \div 2)

\* The blocks the stale rows of a tuple point into when its values were
\* replaced: the freed first arrays.
Replaced(dt) == { k \in Stale(dt) : IsAddress(dt.fields[k].proxy.ptrs[1]) }
FreedBlocks(dt) ==
    { <<dt.fields[k].proxy.ptrs[1],
        dt.fields[k].proxy.ptrs[1] + Max(dt.fields[k].value.nbytes, 1)>> :
          k \in Replaced(dt) }
StaleRows(dt) ==
    UNION { {dt.fields[k].proxy.ptrs[j] : j \in DOMAIN dt.fields[k].proxy.ptrs} :
              k \in Replaced(dt) }

\* Environment: the allocator. The addresses the new array of field k may
\* get while the array it replaces still exists: one no block ever had, or
\* one inside a freed block, where the rows of a proxy array point.
ReplTargets(dt, k) ==
    LET n == Max(dt.fields[k].value.nbytes, 1)
        free(p) == \A c \in Blocks(dt) : ~Overlap(<<p, p + n>>, c)
        fresh == {p \in {ReplBase(k), ReplBase(k) + ArenaSize \div 4} : free(p)}
    IN  {p \in fresh : \A q \in fresh : p <= q}
        \cup {p \in StaleRows(dt) :
                /\ free(p)
                /\ \E b \in FreedBlocks(dt) : b[1] <= p /\ p + n <= b[2]}

\* data[k].value = np.zeros(shape, dtype), the new array at address base.
ReplaceValue(k, base) ==
    /\ data.node # 0
    /\ k \in DOMAIN data.fields
    /\ base \in ReplTargets(data, k)
    /\ data' = [data EXCEPT !.fields[k].value =
                   [base |-> base, nbytes |-> @.nbytes, stride |-> @.stride,
                    parts |-> [j \in DOMAIN @.parts |-> 0]]]
    /\ last' = [NoLast EXCEPT !.op = "replace_value", !.node = data.node, !.arg = k]
    /\ UNCHANGED <<natOpen, nextSess, natFmt, opened, held, cache, pc, script,
                   retries, kept, argtypes, threads>>

\* read_data on a tuple whose values may have been replaced: the native
\* write goes to the addresses passed and to the rows of the proxy arrays,
\* and lands in whatever array of the tuple lies there. A write through a
\* row that points into a freed block is undefined behaviour: it lands in
\* the array that got the block since, or in memory no array has, or the
\* process is ended by a signal (crash). So is a read on a tuple that was
\* not made for the format the node has registered (ReadDataUndefined).
ReadDataInMemory(h, timeout, st, evt, crash) ==
    LET r == ReadDataRun(h, timeout, data.fields, st)
        nfmt == IF HandleValid(h) /\ h \in DOMAIN natFmt THEN natFmt[h]
                ELSE data.fmt
        targets == NatTargets(nfmt, Tail(r.log[1].ints), data.fields)
    IN  /\ data # NoData => data.node = h
        /\ crash => ((st = 0 /\ Stale(data) # {}) \/ ~FormatMatches(h))
        /\ data' = IF st = 0 /\ ~crash
                   THEN [data EXCEPT !.fields = MemWrite(@, targets, evt)]
                   ELSE data
        /\ last' = [Last("read_data", h, timeout, <<>>, r) EXCEPT
                       !.evt = evt, !.out = IF crash THEN Crash ELSE @]
        /\ pc' = IF crash THEN "crashed" ELSE pc
        /\ UNCHANGED <<natOpen, nextSess, natFmt, opened, held, cache, script,
                       retries, kept, argtypes, threads>>

ReallocFormats ==
    {<<f>> : f \in MatrixFields} \cup
    {<<f, g>> : f, g \in {h \in PairFields : h.name \in {"E", "S", "W"}}}

ReallocSetFormat ==
    /\ pc = "idle"
    /\ \E fmt \in ReallocFormats : SetReadDataFormat(Endpoint, fmt, 0)

ReallocReplace ==
    /\ pc = "idle"
    /\ \E k \in DOMAIN data.fields :
          \E base \in ReplTargets(data, k) : ReplaceValue(k, base)

ReallocRead ==
    /\ pc = "idle"
    /\ \E st \in NatStatus(Endpoint, {0, TIMEOUT}) : \E crash \in BOOLEAN :
          ReadDataInMemory(Endpoint, 100, st, IF st = 0 THEN 1 ELSE 0, crash)

NextRealloc == ReallocSetFormat \/ ReallocReplace \/ ReallocRead

SpecRealloc == InitData /\ [][NextRealloc]_vars

\* C9: at a read_data call the proxy array of every field of dim 2 holds the
\* row addresses of the value buffer the field has at that call, also after
\* the buffer was replaced.
C9_ProxyFollowsValue ==
    last.op = "read_data"
        => \A k \in DOMAIN data.fields :
              LET d == data.fields[k]
              IN  d.dim = 2
                    => d.proxy.ptrs =
                         [i \in 1..d.shape[1] |->
                             d.value.base + (i - 1) * d.shape[2] * d.itemsize]

(***************************************************************************)
(* The error taxonomy at the two data calls: read_data and has_data on a   *)
(* registered endpoint, under every status of the taxonomy.                *)
(***************************************************************************)
TupleOf(h, fmt) ==
    [node |-> h, arena |-> 1, fmt |-> NatParse(fmt),
     fields |-> SetReadDataFormatRun(h, fmt, 0,
                                     Mem(ArenaBase(1), "zero")).out.value.ds]

ReadFormats ==
    {<<f>> : f \in ScalarFields} \cup
    {<<f, g>> : f, g \in {h \in PairFields : h.name \in {"E", "S"}}}

InitRead ==
    \E fmt \in ReadFormats :
        /\ natOpen = {1}
        /\ nextSess = 1
        /\ natFmt = (Endpoint :> NatParse(fmt))
        /\ opened = <<TRUE>>
        /\ held = {Endpoint}
        /\ cache = {}
        /\ data = TupleOf(Endpoint, fmt)
        /\ pc = "idle"
        /\ script = NoScript
        /\ retries = 0
        /\ kept = NoData
        /\ argtypes = LoadedArgtypes
        /\ threads = <<>>
        /\ last = NoLast

ReadAny ==
    \E t \in Timeouts : \E st \in NatStatus(Endpoint, ReadStatuses) :
        \E evt \in IF st = 0 THEN Events ELSE {0} :
            ReadData(Endpoint, t, st, evt)

HasDataAny ==
    \E t \in Timeouts : \E st \in NatStatus(Endpoint, ReadStatuses) :
        HasData(Endpoint, t, st)

NextRead == ReadAny \/ HasDataAny

SpecRead == InitRead /\ [][NextRead]_vars

\* C6: the taxonomy maps its sixteen kinds one-to-one onto 0, -1, ..., -15 as
\* listed, and read_data and has_data surface status -11 as an Error of kind
\* TIMEOUT, status -12 as an Error of kind STOP, and every other negative
\* status as an Error of another kind.
C6_TaxonomyAndDataCalls ==
    LET SpecTaxonomy ==
        { <<"SUCCESS", 0>>, <<"GENERIC_ERROR", -1>>, <<"INVALID_PARAM", -2>>,
            <<"DEVICE_ALREADY_OPEN", -3>>, <<"DEVICE_NOT_FOUND", -4>>,
            <<"MAX_DEVICES_ERROR", -5>>, <<"COMMAND_ERROR", -6>>,
            <<"INTERNAL_ERROR", -7>>, <<"NOT_IMPLEMENTED", -8>>,
            <<"INVALID_HANDLE", -9>>, <<"DEVICE_LIBRARY_NOT_AVAILABLE", -10>>,
            <<"TIMEOUT", -11>>, <<"STOP", -12>>, <<"DISABLED", -13>>,
            <<"BAD_LIBRARY_VERSION", -14>>, <<"COMMUNICATION_ERROR", -15>> }
    IN
    /\ {<<ErrorCodeMembers[i].name, ErrorCodeMembers[i].value>> :
            i \in DOMAIN ErrorCodeMembers} = SpecTaxonomy
    /\ Len(ErrorCodeMembers) = Cardinality(SpecTaxonomy)
    /\ \A v \in -15..0 : ErrorCode(v).value = v
    /\ last.op \in {"read_data", "has_data"}
         => LET st == last.log[1].st
                o == last.out
            IN  /\ st = -11 => (o.exc = "Error" /\ o.code.name = "TIMEOUT")
                /\ st = -12 => (o.exc = "Error" /\ o.code.name = "STOP")
                /\ (st < 0 /\ st \notin {-11, -12})
                     => /\ o.exc = "Error"
                        /\ o.code.value = st
                        /\ o.code.name \notin {"TIMEOUT", "STOP", "SUCCESS"}
                /\ st < 0 => (o.kind = "raise" /\ o.code.value = st)
                /\ st >= 0 => o = Return(PyNone)

C6_Witness ==
    /\ last.op = "has_data"
    /\ last.log[1].st = -12
    /\ last.out.exc = "Error"
    /\ last.out.code = [name |-> "STOP", value |-> -12]

(***************************************************************************)
(* The error-checking wrapper alone: every wrapped entry point under every *)
(* status of the taxonomy and under positive results.                      *)
(***************************************************************************)
ErrStatuses == ErrorCodeValues \cup {1, 2}

InitErr ==
    \E f \in WrappedEntryPoints : \E st \in ErrStatuses :
        /\ natOpen = {1}
        /\ nextSess = 1
        /\ natFmt = <<>>
        /\ opened = <<TRUE>>
        /\ held = {}
        /\ cache = {}
        /\ data = NoData
        /\ pc = "called"
        /\ script = NoScript
        /\ retries = 0
        /\ kept = NoData
        /\ argtypes = LoadedArgtypes
        /\ threads = <<>>
        /\ last = [NoLast EXCEPT !.op = "native", !.arg = st,
                                 !.log = <<NatCall(f, 0, <<>>, st)>>]

\* ctypes hands the result of the native call to the errcheck callable.
Errcheck ==
    /\ pc = "called"
    /\ pc' = "checked"
    /\ last' = [last EXCEPT
                   !.out = ApiErrcheck(last.log[1].st, last.log[1].f, GleOk)]
    /\ UNCHANGED <<natOpen, nextSess, natFmt, opened, held, cache, data, script,
                   retries, kept, argtypes, threads>>

NextErr == Errcheck

SpecErr == InitErr /\ [][NextErr]_vars

\* C3: a negative result of a wrapped entry point becomes an Error whose code
\* is the member for that result, whose message is the last error text of the
\* library and whose func is the name of the entry point; a result of zero or
\* more is returned unchanged.
C3_ErrcheckRaisesOrReturns ==
    pc = "checked"
        => LET c == last.log[1]
               o == last.out
           IN  /\ c.st < 0
                    => /\ o.kind = "raise"
                       /\ o.exc = "Error"
                       /\ o.code \in {ErrorCodeMembers[i] : i \in DOMAIN ErrorCodeMembers}
                       /\ o.code.value = c.st
                       /\ o.message = NatLastErrorText(c.f, c.st)
                       /\ o.func = c.f
               /\ c.st >= 0
                    => /\ o.kind = "return"
                       /\ o.value = PyInt(c.st)

C3_Witness ==
    /\ pc = "checked"
    /\ last.log[1].f = "CAEN_FELib_GetValue"
    /\ last.log[1].st = -2
    /\ last.out.exc = "Error"
    /\ last.out.func = "CAEN_FELib_GetValue"

(***************************************************************************)
(* device.py, _utils.py: the node lifecycle and the memoized navigation.   *)
(* A node is known by its handle. The cache holds one entry per memoized   *)
(* method and node; the operations of this part pass no path and the       *)
(* default initial_size.                                                   *)
(***************************************************************************)
DefaultInitialSize == 64

MemoMethods ==
    {"get_child_nodes", "get_parent_node", "get_node", "get_path",
     "get_node_properties"}
PlainMethods == {"get_value", "set_value", "send_command"}
DataMethods == {"set_read_data_format", "read_data", "has_data"}
NodeOps == MemoMethods \cup PlainMethods \cup DataMethods

MethodFunc(m) ==
    CASE m = "get_child_nodes" -> "CAEN_FELib_GetChildHandles"
      [] m = "get_parent_node" -> "CAEN_FELib_GetParentHandle"
      [] m = "get_node" -> "CAEN_FELib_GetHandle"
      [] m = "get_path" -> "CAEN_FELib_GetPath"
      [] m = "get_node_properties" -> "CAEN_FELib_GetNodeProperties"
      [] m = "get_value" -> "CAEN_FELib_GetValue"
      [] m = "set_value" -> "CAEN_FELib_SetValue"
      [] m = "send_command" -> "CAEN_FELib_SendCommand"

\* Environment: whether the library can answer method m on tree node i, and
\* the statuses it may then report.
NatCan(m, i) == m = "get_parent_node" => TreeParent(i) >= 0
NavStatuses(m, h) ==
    NatStatus(h, IF NatCan(m, Idx(h))
                 THEN {0, ErrorCodeValue("COMMUNICATION_ERROR")}
                 ELSE {ErrorCodeValue("INVALID_PARAM")})

\* Node.get_child_nodes(None, initial_size): the enumeration is repeated with
\* a buffer of the reported size while the reported size exceeds the buffer.
\* kids are the child handles the native library has for the node: a call
\* with a buffer of size entries writes those that fit and reports how many
\* there are; the wrapper returns the first res entries of its buffer.
GetChildNodesLoopMutNoRetry(h, kids, size, st, log) ==
    LET f == MethodFunc("get_child_nodes")
        res == IF st < 0 THEN st ELSE Len(kids)
        call == NatCall(f, h, <<size>>, res)
        chk == ApiErrcheck(res, f, GleOk)
        buf == [i \in 1..size |-> IF i <= Len(kids) THEN kids[i] ELSE 0]
    IN  IF chk.kind = "raise" THEN [out |-> chk, log |-> Append(log, call)]
        ELSE [out |-> Return(PyNodes(SubSeq(buf, 1, IF res <= size THEN res ELSE size))),
              log |-> Append(log, call)]

RECURSIVE GetChildNodesLoop(_, _, _, _, _)
GetChildNodesLoop(h, kids, size, st, log) ==
    LET f == MethodFunc("get_child_nodes")
        res == IF st < 0 THEN st ELSE Len(kids)
        call == NatCall(f, h, <<size>>, res)
        chk == ApiErrcheck(res, f, GleOk)
        buf == [i \in 1..size |-> IF i <= Len(kids) THEN kids[i] ELSE 0]
    IN  IF chk.kind = "raise" THEN [out |-> chk, log |-> Append(log, call)]
        ELSE IF res <= size
             THEN [out |-> Return(PyNodes(SubSeq(buf, 1, res))),
                   log |-> Append(log, call)]
        ELSE GetChildNodesLoop(h, kids, res, st, Append(log, call))

\* The nodes a result hands to the caller.
NodesOf(v) == IF v.t = "nodes" THEN {v.hs[k] : k \in DOMAIN v.hs} ELSE {}

\* The Node objects that exist: those the caller holds (hs) and those a
\* cached result holds. The key of a cache entry is a weak reference and
\* keeps no node alive.
CachedNodes(c) == UNION {NodesOf(e.val) : e \in c}
Alive(c, hs) == hs \cup CachedNodes(c)

\* type(self)(handle, root): a new Node object for handle h, told apart from
\* every object that exists or is the key of a cache entry (used).
NewNode(h, used) ==
    LET first == IF Idx(h) = 0 THEN 1 ELSE 0
        k == CHOOSE k \in first..(first + Cardinality(used)) :
                 /\ HandleOf(h) + ObjStride * k \notin used
                 /\ \A j \in first..(k - 1) : HandleOf(h) + ObjStride * j \in used
    IN  HandleOf(h) + ObjStride * k

\* The result of a method as the caller gets it: a new node for every handle
\* the native library gave.
NewNodes(v, used) ==
    IF v.t = "nodes" THEN PyNodes([k \in DOMAIN v.hs |-> NewNode(v.hs[k], used)])
    ELSE v

GetChildNodesRun(h, size, st) ==
    LET kids == TreeKids(Idx(h))
    IN  GetChildNodesLoop(h, [k \in DOMAIN kids |-> Handle(Sess(h), kids[k])],
                          size, st, <<>>)

\* The bodies of get_parent_node, get_node, get_path, get_node_properties,
\* with the handle the native library gives where a node is returned.
NavValue(m, h) ==
    CASE m = "get_parent_node" -> PyNodes(<<Handle(Sess(h), TreeParent(Idx(h)))>>)
      [] m = "get_node" -> PyNodes(<<HandleOf(h)>>)
      [] m = "get_path" -> PyStr(TreePath(Idx(h)))
      [] m = "get_node_properties" -> PyProps(TreeName(Idx(h)), TreeType(Idx(h)))

\* The body of a memoized method; size is the initial_size of
\* get_child_nodes (the path argument is None throughout).
MethodRun(m, h, size, st, used) ==
    LET call == NatCall(MethodFunc(m), h, <<>>, st)
        chk == ApiErrcheck(st, call.f, GleOk)
        r == IF m = "get_child_nodes" THEN GetChildNodesRun(h, size, st)
             ELSE [out |-> IF chk.kind = "raise" THEN chk
                           ELSE Return(NavValue(m, h)),
                   log |-> <<call>>]
    IN  [out |-> IF r.out.kind = "return"
                 THEN Return(NewNodes(r.out.value, used)) ELSE r.out,
         log |-> r.log]

NavRun(m, h, st, used) == MethodRun(m, h, DefaultInitialSize, st, used)

\* lru_cache_method: a cached result is served without running the method;
\* a result is cached when the method returns, not when it raises. The key
\* of an entry is a weak reference to the node of the call: while that node
\* exists it equals the reference to every node of the same handle
\* (Node.__eq__, Node.__hash__); once the node is gone it equals no other
\* reference and the entry is never hit again. hs are the nodes the caller
\* holds.
Hits(c, m, h, hs) ==
    {e \in c : e.m = m /\ e.h \in Alive(c, hs) /\ HandleOf(e.h) = HandleOf(h)}
Cached(c, m, h, hs) == Hits(c, m, h, hs) # {}
CachedValue(c, m, h, hs) == (CHOOSE e \in Hits(c, m, h, hs) : TRUE).val
Used(c, hs) == Alive(c, hs) \cup {e.h : e \in c}

\* A call that raises leaves an entry behind, which answers the next call.
LruCacheMethodMutCacheFailure(c, m, h, st, hs) ==
    IF Cached(c, m, h, hs)
    THEN [out |-> Return(CachedValue(c, m, h, hs)), log |-> <<>>, cache |-> c]
    ELSE LET r == NavRun(m, h, st, Used(c, hs))
         IN  [out |-> r.out, log |-> r.log,
              cache |-> c \cup {[m |-> m, h |-> h,
                                 val |-> IF r.out.kind = "return" THEN r.out.value
                                         ELSE PyNone]}]

LruCacheMethod(c, m, h, st, hs) ==
    IF Cached(c, m, h, hs)
    THEN [out |-> Return(CachedValue(c, m, h, hs)), log |-> <<>>, cache |-> c]
    ELSE LET r == NavRun(m, h, st, Used(c, hs))
         IN  [out |-> r.out, log |-> r.log,
              cache |-> IF r.out.kind = "return"
                        THEN c \cup {[m |-> m, h |-> h, val |-> r.out.value]}
                        ELSE c]

\* The lru_cache wrappers of Node.__node_cache_manager, in the order the
\* decorators appended them.
ClearOrder ==
    <<"get_child_nodes", "get_parent_node", "get_node", "get_path",
      "get_node_properties">>

\* wrapper.cache_clear() of the wrapper of method m
CacheClear(c, m) == {e \in c : e.m # m}

ClearAllMutFirstOnly(c) == CacheClear(c, ClearOrder[1])

ClearAllMutKeep(c) == c

\* CacheManager.clear_all: cache_clear() on every wrapper of the list
ClearAll(c) == {e \in c : \A i \in DOMAIN ClearOrder : e \in CacheClear(c, ClearOrder[i])}

\* get_value, set_value, send_command
PlainRun(m, h, st) ==
    LET call == NatCall(MethodFunc(m), h, <<>>, st)
        chk == ApiErrcheck(st, call.f, GleOk)
    IN  [out |-> IF chk.kind = "raise" THEN chk
                 ELSE IF m = "get_value" THEN Return(PyStr("0"))
                 ELSE Return(PyNone),
         log |-> <<call>>]

\* Node.open(url): a root node for the handle of a new session.
Open(st) ==
    LET call == NatCall("CAEN_FELib_Open", 0, <<>>, st)
        chk == ApiErrcheck(st, call.f, GleOk)
        s == nextSess + 1
    IN  /\ nextSess < MaxOpens
        /\ IF chk.kind = "raise"
           THEN /\ last' = [NoLast EXCEPT !.op = "open", !.log = <<call>>, !.out = chk]
                /\ UNCHANGED <<natOpen, nextSess, opened, held>>
           ELSE /\ natOpen' = natOpen \cup {s}
                /\ nextSess' = s
                /\ opened' = (s :> TRUE) @@ opened
                /\ held' = held \cup {Handle(s, 0)}
                /\ last' = [NoLast EXCEPT !.op = "open", !.node = Handle(s, 0),
                                          !.log = <<call>>,
                                          !.out = Return(PyNodes(<<Handle(s, 0)>>))]
        /\ UNCHANGED <<natFmt, cache, data, pc, script, retries, kept, argtypes,
                       threads>>

CloseMutAllFlags(h, st) ==
    LET call == NatCall("CAEN_FELib_Close", h, <<>>, st)
        chk == ApiErrcheck(st, call.f, GleOk)
    IN  /\ h \in held
        /\ IsRoot(h)
        /\ IF chk.kind = "raise"
           THEN /\ last' = [NoLast EXCEPT !.op = "close", !.node = h,
                                          !.log = <<call>>, !.out = chk]
                /\ UNCHANGED <<natOpen, opened, cache>>
           ELSE /\ natOpen' = natOpen \ {Sess(h)}
                /\ opened' = [s \in DOMAIN opened |-> FALSE]
                /\ cache' = ClearAll(cache)
                /\ last' = [NoLast EXCEPT !.op = "close", !.node = h,
                                          !.log = <<call>>]
        /\ UNCHANGED <<nextSess, natFmt, held, data, pc, script, retries, kept,
                       argtypes, threads>>

CloseMutFinally(h, st) ==
    LET call == NatCall("CAEN_FELib_Close", h, <<>>, st)
        chk == ApiErrcheck(st, call.f, GleOk)
    IN  /\ h \in held
        /\ IsRoot(h)
        /\ natOpen' = IF chk.kind = "raise" THEN natOpen ELSE natOpen \ {Sess(h)}
        /\ opened' = [opened EXCEPT ![Sess(h)] = FALSE]
        /\ cache' = ClearAll(cache)
        /\ last' = [NoLast EXCEPT !.op = "close", !.node = h, !.log = <<call>>,
                                  !.out = IF chk.kind = "raise" THEN chk
                                          ELSE Return(PyNone)]
        /\ UNCHANGED <<nextSess, natFmt, held, data, pc, script, retries, kept,
                       argtypes, threads>>

\* Node.close() on the node Node.open() made.
Close(h, st) ==
    LET call == NatCall("CAEN_FELib_Close", h, <<>>, st)
        chk == ApiErrcheck(st, call.f, GleOk)
    IN  /\ h \in held
        /\ IsRoot(h)
        /\ IF chk.kind = "raise"
           THEN /\ last' = [NoLast EXCEPT !.op = "close", !.node = h,
                                          !.log = <<call>>, !.out = chk]
                /\ UNCHANGED <<natOpen, opened, cache>>
           ELSE /\ natOpen' = natOpen \ {Sess(h)}
                /\ opened' = [opened EXCEPT ![Sess(h)] = FALSE]
                /\ cache' = ClearAll(cache)
                /\ last' = [NoLast EXCEPT !.op = "close", !.node = h,
                                          !.log = <<call>>]
        /\ UNCHANGED <<nextSess, natFmt, held, data, pc, script, retries, kept,
                       argtypes, threads>>

\* A memoized navigation method on a node the caller holds. The model keeps
\* at most MaxCached entries at a time and follows the nodes made for one
\* handle up to the serial number MaxNodes.
Navigate(m, h, st) ==
    LET r == LruCacheMethod(cache, m, h, st, held)
    IN  /\ h \in held
        /\ Cardinality(r.cache) <= MaxCached
        /\ r.out.kind = "return"
              => \A o \in NodesOf(r.out.value) : SerialOf(o) <= MaxNodes
        /\ cache' = r.cache
        /\ held' = IF r.out.kind = "return" THEN held \cup NodesOf(r.out.value)
                   ELSE held
        /\ last' = [NoLast EXCEPT !.op = m, !.node = h, !.log = r.log,
                                  !.out = r.out]
        /\ UNCHANGED <<natOpen, nextSess, natFmt, opened, data, pc, script,
                       retries, kept, argtypes, threads>>

Plain(m, h, st) ==
    LET r == PlainRun(m, h, st)
    IN  /\ h \in held
        /\ last' = [NoLast EXCEPT !.op = m, !.node = h, !.log = r.log,
                                  !.out = r.out]
        /\ UNCHANGED <<natOpen, nextSess, natFmt, opened, held, cache, data, pc,
                       script, retries, kept, argtypes, threads>>

(***************************************************************************)
(* The library as a caller uses it: digitizers are opened and closed, and  *)
(* navigation, value and command operations and reads with the empty      *)
(* tuple run on the nodes obtained so far.                                  *)
(***************************************************************************)
Init ==
    /\ natOpen = {}
    /\ nextSess = 0
    /\ natFmt = <<>>
    /\ opened = <<>>
    /\ held = {}
    /\ cache = {}
    /\ data = NoData
    /\ pc = "idle"
    /\ script = NoScript
    /\ retries = 0
    /\ kept = NoData
    /\ argtypes = LoadedArgtypes
    /\ threads = <<>>
    /\ last = NoLast

OpenStatuses == {0, ErrorCodeValue("DEVICE_NOT_FOUND")}
CloseStatuses == {0, ErrorCodeValue("COMMUNICATION_ERROR")}
PlainStatuses == {0, ErrorCodeValue("COMMAND_ERROR")}

DoOpen == \E st \in OpenStatuses : Open(st)

DoClose == \E h \in held : \E st \in NatStatus(h, CloseStatuses) : Close(h, st)

DoNavigate ==
    \E m \in MemoMethods : \E h \in held : \E st \in NavStatuses(m, h) :
        Navigate(m, h, st)

DoPlain ==
    \E m \in PlainMethods : \E h \in held : \E st \in NatStatus(h, PlainStatuses) :
        Plain(m, h, st)

DoReadData ==
    \E h \in held : \E st \in NatStatus(h, {0, TIMEOUT}) :
        ReadData(h, 100, st, IF st = 0 THEN 1 ELSE 0)

Next ==
    \/ DoOpen
    \/ DoClose
    \/ DoNavigate
    \/ DoPlain
    \/ DoReadData

Spec == Init /\ [][Next]_vars

\* Whether the root of the session of node h was closed with success.
RootClosed(h) == Sess(h) \in DOMAIN opened /\ ~opened[Sess(h)]

\* C4: once the close of a root node has succeeded, every operation on a
\* node obtained from that root raises an Error of code INVALID_HANDLE.
C4_OperationsAfterCloseFail ==
    (last.op \in NodeOps /\ RootClosed(last.node))
        => /\ last.out.kind = "raise"
           /\ last.out.exc = "Error"
           /\ last.out.code.name = "INVALID_HANDLE"
           /\ last.out.code.value = -9

C4_Witness ==
    /\ last.op = "get_path"
    /\ Idx(last.node) = 1
    /\ RootClosed(last.node)
    /\ last.out.exc = "Error"
    /\ last.out.code.name = "INVALID_HANDLE"

RECURSIVE SeqsUpTo(_, _)
SeqsUpTo(S, n) ==
    IF n = 0 THEN {<<>>}
    ELSE LET shorter == SeqsUpTo(S, n - 1)
         IN  shorter \cup {Append(q, x) : q \in shorter, x \in S}

(***************************************************************************)
(* The marshaler in memory: the caller keeps the tuple of the format it    *)
(* registered before, and the native read writes to the addresses it is    *)
(* given, whatever buffer lies there.                                      *)
(***************************************************************************)
\* Formats of an energy, a sample vector and waveforms, among them the one
\* of two records of four samples.
MemFields ==
    { [name |-> "E", type |-> "U16"],
      [name |-> "S", type |-> "U8", dim |-> 1, shape |-> <<MaxExtent>>],
      [name |-> "W", type |-> "U16", dim |-> 2, shape |-> <<MaxExtent, MaxExtent>>],
      [name |-> "W", type |-> "U16", dim |-> 2, shape |-> <<2, 4>>] }
MemFormats == {<<f>> : f \in MemFields} \cup {<<f, g>> : f, g \in MemFields}
WaveFormat ==
    << [name |-> "E", type |-> "U16"],
       [name |-> "W", type |-> "U16", dim |-> 2, shape |-> <<2, 4>>] >>

\* data = device.set_read_data_format(fmt), the caller keeping the tuple
\* it held before.
MemSetFormat ==
    \E fmt \in MemFormats :
        /\ SetReadDataFormatStep(Endpoint, fmt, 0)
        /\ kept' = data

\* device.read_data(timeout, *data): the native write lands wherever the
\* addresses point, in the current tuple or in the kept one.
MemRead ==
    \E st \in {0, TIMEOUT}, evt \in Events :
        LET r == ReadDataRun(Endpoint, 100, data.fields, st)
            targets == NatTargets(data.fmt, Tail(r.log[1].ints),
                                  data.fields \o kept.fields)
        IN  /\ data # NoData
            /\ ReadDataStep(Endpoint, 100, st, evt)
            /\ kept' = IF st = 0
                       THEN [kept EXCEPT !.fields = MemWrite(@, targets, evt)]
                       ELSE kept
            /\ UNCHANGED <<pc, script, retries>>

NextMem == MemSetFormat \/ MemRead
SpecMem == InitData /\ [][NextMem]_vars

\* C11: after data = set_read_data_format(f2), possibly after an earlier
\* set_read_data_format(f1), a successful read_data(timeout, *data) leaves in
\* every field of data, matrices included, the values the native library
\* wrote; the arrays of the earlier tuple lie elsewhere in memory and keep
\* their contents.
C11_ReadFillsCurrentTupleOnly ==
    [][ (last'.op = "read_data" /\ last'.out = Return(PyNone))
          => /\ \A k \in DOMAIN data'.fields :
                   \A j \in DOMAIN data'.fields[k].value.parts :
                       data'.fields[k].value.parts[j] = last'.evt
             /\ kept' = kept
             /\ \A b \in Blocks(data'), c \in Blocks(kept') : ~Overlap(b, c) ]_vars

C11_Witness ==
    /\ last.op = "read_data"
    /\ last.out = Return(PyNone)
    /\ data.fmt = NatParse(WaveFormat)
    /\ kept # NoData
    /\ \E k \in DOMAIN kept.fields : kept.fields[k].dim = 2
    /\ \A k \in DOMAIN kept.fields :
          \A j \in DOMAIN kept.fields[k].value.parts :
              kept.fields[k].value.parts[j] = 1
    /\ \A k \in DOMAIN data.fields :
          /\ data.fields[k].value.parts # <<>>
          /\ \A j \in DOMAIN data.fields[k].value.parts :
                data.fields[k].value.parts[j] = 2

(***************************************************************************)
(* Allocation of one field: every type name the binding knows and names   *)
(* it does not know, without and with the dim and shape keys, and for      *)
(* types of three widths every shape up to MaxExtent.                      *)
(***************************************************************************)
AllocFields ==
    LET types == DOMAIN TypeMap \cup {"LONG_DOUBLE", "PTRDIFF_T", "U128", ""}
        shapes == {<<>>} \cup {<<n>> : n \in Extents}
                      \cup {<<r, c>> : r, c \in Extents}
    IN  { [name |-> "F", type |-> t] : t \in types }
        \cup { [name |-> "F", type |-> t, dim |-> 0, shape |-> <<>>] : t \in types }
        \cup { [name |-> "F", type |-> t, dim |-> Len(s), shape |-> s] :
                 t \in {"U8", "U32", "LONG DOUBLE"}, s \in shapes }

AllocSetFormat == \E f \in AllocFields : SetReadDataFormat(Endpoint, <<f>>, 0)

SpecAlloc == InitData /\ [][AllocSetFormat]_vars

\* The width in bytes of the C type a type name stands for (LP64).
NativeWidth(t) ==
    CASE t \in {"U8", "I8", "CHAR", "BOOL"} -> 1
      [] t \in {"U16", "I16"} -> 2
      [] t \in {"U32", "I32", "FLOAT"} -> 4
      [] t \in {"U64", "I64", "DOUBLE", "SIZE_T"} -> 8
      [] OTHER -> 16

\* The outcome of the last set_read_data_format of one field, given the
\* type names that are to be accepted: a name among them gives a buffer of
\* its native width, any other name a KeyError.
TypeOutcome(names) ==
    (last.op = "set_read_data_format" /\ ~last.badShape)
       => LET t == natFmt[Endpoint][1].type
          IN  IF t \in names
              THEN /\ last.out.kind = "return"
                   /\ data.fmt = natFmt[Endpoint]
                   /\ data.fields[1].itemsize = NativeWidth(t)
              ELSE last.out = Raise("KeyError", PyText(t))

\* C12 with long double named LONG_DOUBLE: the accepted names are U8, U16, U32, U64, I8, I16, I32, I64,
\* CHAR, BOOL, SIZE_T, FLOAT, DOUBLE and LONG_DOUBLE, each giving elements of
\* its native width; every other name fails as unsupported.
C12_SpecEnumeration ==
    TypeOutcome({"U8", "U16", "U32", "U64", "I8", "I16", "I32", "I64", "CHAR",
                 "BOOL", "SIZE_T", "FLOAT", "DOUBLE", "LONG_DOUBLE"})

\* C12 with long double named as _type_map names it: the accepted names are
\* U8, U16, U32, U64, I8, I16, I32, I64, CHAR, BOOL, SIZE_T, FLOAT, DOUBLE and
\* LONG DOUBLE, with a space, each giving elements of its native width;
\* LONG_DOUBLE fails with a KeyError like PTRDIFF_T and every other unknown
\* name.
C12_CodeEnumeration ==
    TypeOutcome({"U8", "U16", "U32", "U64", "I8", "I16", "I32", "I64", "CHAR",
                 "BOOL", "SIZE_T", "FLOAT", "DOUBLE", "LONG DOUBLE"})

C12_Witness ==
    /\ last.op = "set_read_data_format"
    /\ last.out = Raise("KeyError", PyText("LONG_DOUBLE"))
    /\ natFmt[Endpoint][1].type = "LONG_DOUBLE"
    /\ data # NoData
    /\ data.fields[1].type = "LONG DOUBLE"
    /\ data.fields[1].itemsize = 16

\* C13: the value buffer of a field holds the product of the extents of its
\* shape in elements of its type: one element for dim 0, with or without a
\* shape, and none when an extent is 0, which is no error.
C13_BufferHoldsProductOfShape ==
    (last.op = "set_read_data_format" /\ ~last.badShape
        /\ natFmt[Endpoint][1].type \in DOMAIN TypeMap)
       => /\ last.out.kind = "return"
          /\ LET d == data.fields[1]
                 n == CASE d.dim = 0 -> 1
                        [] d.dim = 1 -> d.shape[1]
                        [] OTHER -> d.shape[1] * d.shape[2]
             IN  /\ d.value.nbytes = n * NativeWidth(d.type)
                 /\ last.log[2] = AllocEvent(d.value.base, n * NativeWidth(d.type))
                 /\ (\E i \in DOMAIN d.shape : d.shape[i] = 0) => d.value.nbytes = 0

C13_Witness ==
    /\ last.op = "set_read_data_format"
    /\ last.out.kind = "return"
    /\ data.fields[1].type = "U32"
    /\ data.fields[1].shape = <<MaxExtent, 0>>
    /\ data.fields[1].value.nbytes = 0

(***************************************************************************)
(* get_child_nodes over every list of child handles the native library may *)
(* have for the root and every initial_size: the list is the script of     *)
(* the environment. The calls go through the memoization of the method.    *)
(***************************************************************************)
KidLists ==
    { q \in SeqsUpTo({Handle(1, i) : i \in 1..3}, 3) :
        \A i, j \in DOMAIN q : i # j => q[i] # q[j] }

InitKids ==
    \E q \in KidLists :
        /\ natOpen = {1}
        /\ nextSess = 1
        /\ natFmt = <<>>
        /\ opened = <<TRUE>>
        /\ held = {Handle(1, 0)}
        /\ cache = {}
        /\ data = NoData
        /\ pc = "idle"
        /\ script = [all |-> q, pos |-> 0]
        /\ retries = 0
        /\ kept = NoData
        /\ argtypes = LoadedArgtypes
        /\ threads = <<>>
        /\ last = NoLast

\* get_child_nodes(None, initial_size) under lru_cache_method: the entry of
\* (node, initial_size) is served when there is one, with no native call;
\* else the enumeration runs over the children kids the native library has,
\* and the nodes made for them are returned and cached.
GetChildNodes(c, h, kids, size, st, hs) ==
    LET hit == {e \in c : /\ e.m = "get_child_nodes"
                          /\ e.h \in Alive(c, hs)
                          /\ HandleOf(e.h) = HandleOf(h)
                          /\ e.arg = size}
        r == GetChildNodesLoop(h, kids, size, st, <<>>)
    IN  IF hit # {}
        THEN [out |-> Return((CHOOSE e \in hit : TRUE).val), log |-> <<>>,
              cache |-> c]
        ELSE IF r.out.kind # "return"
             THEN [out |-> r.out, log |-> r.log, cache |-> c]
        ELSE LET v == NewNodes(r.out.value, Used(c, hs))
             IN  [out |-> Return(v), log |-> r.log,
                  cache |-> c \cup {[m |-> "get_child_nodes", h |-> h,
                                     arg |-> size, val |-> v]}]

\* The caller asks the root for its children and looks at the result without
\* keeping it; the model keeps at most MaxCached entries at a time.
KidsCall ==
    \E size \in 0..MaxSize \cup {DefaultInitialSize},
       st \in {0, ErrorCodeValue("COMMUNICATION_ERROR")} :
        LET r == GetChildNodes(cache, Handle(1, 0), script.all, size, st, held)
        IN  /\ Cardinality(r.cache) <= MaxCached
            /\ cache' = r.cache
            /\ last' = Last("get_child_nodes", Handle(1, 0), size, <<>>, r)
            /\ UNCHANGED <<natOpen, nextSess, natFmt, opened, held, data, pc,
                           script, retries, kept, argtypes, threads>>

SpecKids == InitKids /\ [][KidsCall]_vars

\* C14: whatever the number N of children and the initial_size S,
\* get_child_nodes makes at most two native calls: none when the call is
\* answered from the cache, else one with a buffer of S entries and, only
\* when N exceeds S, a second one with a buffer of exactly N entries; it
\* returns N nodes, the i-th with the i-th child handle.
C14_ChildNodesInTwoCalls ==
    (last.op = "get_child_nodes" /\ last.out.kind = "return")
       => LET n == Len(script.all)
              v == last.out.value
          IN  /\ Len(last.log) <= 2
              /\ last.log = <<>>
                   => \E e \in cache : e.arg = last.arg /\ e.val = v
              /\ last.log # <<>>
                   => /\ last.log[1].ints = <<last.arg>>
                      /\ Len(last.log) = 2 <=> n > last.arg
                      /\ Len(last.log) = 2 => last.log[2].ints = <<n>>
              /\ \A i \in DOMAIN last.log :
                    last.log[i].f = "CAEN_FELib_GetChildHandles"
              /\ v.t = "nodes"
              /\ [k \in DOMAIN v.hs |-> HandleOf(v.hs[k])] = script.all

C14_Witness ==
    /\ last.op = "get_child_nodes"
    /\ last.arg = 2
    /\ Len(script.all) = 3
    /\ Len(last.log) = 2
    /\ last.out.kind = "return"
    /\ Len(last.out.value.hs) = 3
    /\ \A i, j \in 1..3 :
          i # j => HandleOf(last.out.value.hs[i]) # HandleOf(last.out.value.hs[j])
    /\ Cardinality(cache) = 2

(***************************************************************************)
(* get_device_tree and lib.get_lib_info: the same loop over a text of n    *)
(* characters the native library has to deliver. The native call reports   *)
(* n whatever the buffer; the loop is followed for MaxCalls native calls,  *)
(* and its outcome is "running" when it has not ended by then.             *)
(***************************************************************************)
DefaultTreeSize == 4194304

\* json.loads(buffer.value.decode()) of the text the native library wrote.
\* Environment: a text of one character or more is a JSON document; a text
\* of no character is none, and loads raises.
Loads(n) ==
    IF n = 0
    THEN Raise("JSONDecodeError", PyText("Expecting value: line 1 column 1 (char 0)"))
    ELSE Return(PyStr("json"))

RECURSIVE TextLoop(_, _, _, _, _, _)
TextLoop(f, h, n, size, st, log) ==
    LET res == IF st < 0 THEN st ELSE n
        calls == Append(log, NatCall(f, h, <<size>>, res))
        chk == ApiErrcheck(res, f, GleOk)
    IN  IF chk.kind = "raise" THEN [out |-> chk, log |-> calls]
        ELSE IF res < size THEN [out |-> Loads(res), log |-> calls]
        ELSE IF Len(calls) >= MaxCalls
             THEN [out |-> [Return(PyNone) EXCEPT !.kind = "running"],
                   log |-> calls]
        ELSE TextLoop(f, h, n, res, st, calls)

GetDeviceTree(h, n, size, st) ==
    /\ last' = Last("get_device_tree", h, size, <<>>,
                    TextLoop("CAEN_FELib_GetDeviceTree", h, n, size, st, <<>>))
    /\ script' = [all |-> <<n>>, pos |-> 0]
    /\ UNCHANGED <<natOpen, nextSess, natFmt, opened, held, cache, data, pc,
                   retries, kept, argtypes, threads>>

GetLibInfo(n, size, st) ==
    /\ last' = Last("get_lib_info", 0, size, <<>>,
                    TextLoop("CAEN_FELib_GetLibInfo", 0, n, size, st, <<>>))
    /\ script' = [all |-> <<n>>, pos |-> 0]
    /\ UNCHANGED <<natOpen, nextSess, natFmt, opened, held, cache, data, pc,
                   retries, kept, argtypes, threads>>

NextText ==
    \E n \in 0..MaxSize, size \in 0..MaxSize \cup {DefaultTreeSize},
       st \in {0, ErrorCodeValue("COMMUNICATION_ERROR")} :
        \/ \E h \in {Handle(1, 0), Endpoint} : GetDeviceTree(h, n, size, st)
        \/ GetLibInfo(n, size, st)

SpecText == InitData /\ [][NextText]_vars

\* C15: whatever the size N the native call reports and the initial_size S,
\* get_device_tree and get_lib_info end after at most two native calls, the
\* second with a buffer of the reported size.
C15_TextInTwoCalls ==
    last.op \in {"get_device_tree", "get_lib_info"}
       => /\ last.out.kind # "running"
          /\ Len(last.log) <= 2
          /\ Len(last.log) = 2 => last.log[2].ints = <<script.all[1]>>

(***************************************************************************)
(* Open digitizers and every way a node is closed or dropped: close() or   *)
(* the end of a with block on the node Node.open() made or on a node made  *)
(* by navigation, and garbage collection.                                  *)
(***************************************************************************)
InitTwo ==
    /\ natOpen = {1, 2}
    /\ nextSess = 2
    /\ natFmt = <<>>
    /\ opened = <<TRUE, TRUE>>
    /\ held = {Handle(1, 0), Handle(2, 0)}
    /\ cache = {}
    /\ data = NoData
    /\ pc = "idle"
    /\ script = NoScript
    /\ retries = 0
    /\ kept = NoData
    /\ argtypes = LoadedArgtypes
    /\ threads = <<>>
    /\ last = NoLast

\* Node.close(), also through __exit__, on a node made by a navigation
\* method: the native Close gets the handle of that node, which is the handle
\* of the root when the node was returned by get_node() or by the
\* get_parent_node() of a child. The opened flag such a node clears is its
\* own, which was never set; the flag of the root stays. Environment: when
\* the native library reports success, shut tells whether it closed the
\* digitizer of the node, as it does for the handle of the root.
CloseDerived(h, st, shut) ==
    LET call == NatCall("CAEN_FELib_Close", h, <<>>, st)
        chk == ApiErrcheck(st, call.f, GleOk)
    IN  /\ h \in held
        /\ ~IsRoot(h)
        /\ IF chk.kind = "raise"
           THEN /\ last' = [NoLast EXCEPT !.op = "close", !.node = h,
                                          !.log = <<call>>, !.out = chk]
                /\ UNCHANGED <<natOpen, cache>>
           ELSE /\ natOpen' = IF shut THEN natOpen \ {Sess(h)} ELSE natOpen
                /\ cache' = ClearAll(cache)
                /\ last' = [NoLast EXCEPT !.op = "close", !.node = h,
                                          !.log = <<call>>]
        /\ UNCHANGED <<nextSess, natFmt, opened, held, data, pc, script, retries,
                       kept, argtypes, threads>>

\* The caller drops node h. A node a cached result holds stays; a node
\* nothing holds any more is collected, and Node.__del__ calls close() when
\* opened is set, which it is only on the node Node.open() made; an
\* exception of close() in __del__ is not propagated. The caller drops that
\* node after all the nodes made from it, which hold it as their root_node.
\* The opened flag goes with its node.
Del(h, st) ==
    LET call == NatCall("CAEN_FELib_Close", h, <<>>, st)
        chk == ApiErrcheck(st, call.f, GleOk)
        closes == IsRoot(h) /\ opened[Sess(h)]
    IN  /\ h \in held
        /\ IsRoot(h) => \A g \in Alive(cache, held) \ {h} : Sess(g) # Sess(h)
        /\ held' = held \ {h}
        /\ last' = [NoLast EXCEPT !.op = "__del__", !.node = h,
                                  !.log = IF closes THEN <<call>> ELSE <<>>]
        /\ natOpen' = IF closes /\ chk.kind # "raise" THEN natOpen \ {Sess(h)}
                      ELSE natOpen
        /\ cache' = IF closes /\ chk.kind # "raise" THEN ClearAll(cache) ELSE cache
        /\ opened' = IF IsRoot(h)
                     THEN [s \in DOMAIN opened \ {Sess(h)} |-> opened[s]]
                     ELSE opened
        /\ UNCHANGED <<nextSess, natFmt, data, pc, script, retries, kept,
                       argtypes, threads>>

DoCloseDerived ==
    \E h \in held :
        \E st \in NatStatus(h, IF Idx(h) = 0 THEN CloseStatuses
                               ELSE {0, ErrorCodeValue("INVALID_PARAM")}) :
            \E shut \in {b \in BOOLEAN : (b => st = 0) /\ (Idx(h) = 0 => (b <=> st = 0))} :
                CloseDerived(h, st, shut)

DoDel ==
    \E h \in held :
        \E st \in NatStatus(h, IF IsRoot(h) /\ opened[Sess(h)] THEN CloseStatuses
                               ELSE {0}) :
            Del(h, st)

\* With two digitizers the caller asks for the children and the path of the
\* nodes it holds.
NextTwo ==
    \/ DoClose
    \/ DoCloseDerived
    \/ \E m \in {"get_child_nodes", "get_path"} : \E h \in held :
          \E st \in NavStatuses(m, h) : Navigate(m, h, st)

SpecTwo == InitTwo /\ [][NextTwo]_vars

\* One open digitizer: every memoized method, close() on any node, and the
\* caller dropping nodes.
InitOne ==
    /\ natOpen = {1}
    /\ nextSess = 1
    /\ natFmt = <<>>
    /\ opened = <<TRUE>>
    /\ held = {Handle(1, 0)}
    /\ cache = {}
    /\ data = NoData
    /\ pc = "idle"
    /\ script = NoScript
    /\ retries = 0
    /\ kept = NoData
    /\ argtypes = LoadedArgtypes
    /\ threads = <<>>
    /\ last = NoLast

NextOne ==
    \/ DoClose
    \/ DoCloseDerived
    \/ DoDel
    \/ DoNavigate

SpecOne == InitOne /\ [][NextOne]_vars

\* C16: when close() returns, the memoization cache is empty, whatever node
\* and digitizer its entries were for; the navigation call that follows is
\* not served from the cache but calls the native library.
C16_CloseClearsWholeCache ==
    [][ /\ (last'.op = "close" /\ last'.out.kind = "return") => cache' = {}
        /\ (last.op = "close" /\ last.out.kind = "return"
              /\ last'.op \in MemoMethods)
             => /\ last'.log # <<>>
                /\ last'.log[1].f = MethodFunc(last'.op)
                /\ last'.log[1].h = HandleOf(last'.node) ]_vars

C16_Witness ==
    /\ ~opened[1]
    /\ opened[2]
    /\ Handle(1, 1) \in held
    /\ Handle(2, 1) \in held
    /\ last.op = "get_path"
    /\ last.node = Handle(2, 1)
    /\ last.out = Return(PyStr(TreePath(1)))
    /\ last.log # <<>>
    /\ cache = {[m |-> "get_path", h |-> Handle(2, 1), val |-> PyStr(TreePath(1))]}

\* C17: whatever the sequence of close() calls, with blocks and garbage
\* collections, every native Close call has the handle of a root node.
C17_OnlyRootsReachNativeClose ==
    \A i \in DOMAIN last.log :
        last.log[i].f = "CAEN_FELib_Close" => Idx(last.log[i].h) = 0

(***************************************************************************)
(* Two threads of one process, each on an endpoint with a format of its    *)
(* own: a thread registers its format, then reads into the tuple it got,   *)
(* again and again. The endpoints may be the same node. The caller either  *)
(* serializes the pairs (pc = "serialized": no thread registers while      *)
(* another is between its registration and its read) or does not (pc =     *)
(* "free"). The argtypes of lib.read_data are shared by the threads. A     *)
(* registration is two steps, the native call and the building of the      *)
(* tuple, and the other thread may run in between.                         *)
(***************************************************************************)
ThreadFormats ==
    { << [name |-> "E", type |-> "U16"] >>,
      << [name |-> "E", type |-> "U16"],
         [name |-> "S", type |-> "U8", dim |-> 1, shape |-> <<MaxExtent>>] >>,
      << [name |-> "S", type |-> "U8", dim |-> 1, shape |-> <<MaxExtent>>],
         [name |-> "E", type |-> "U16"] >> }

InitThreads ==
    \E n1, n2 \in {Handle(1, 1), Handle(2, 1)}, f1, f2 \in ThreadFormats,
       mode \in {"serialized", "free"} :
        LET th(n, f) == [node |-> n, fmt |-> f, pc |-> "start", ds |-> <<>>,
                         log |-> <<>>, out |-> Return(PyNone), reg |-> <<>>,
                         wild |-> FALSE]
        IN  /\ natOpen = {1, 2}
            /\ nextSess = 2
            /\ natFmt = <<>>
            /\ opened = <<TRUE, TRUE>>
            /\ held = {n1, n2}
            /\ cache = {}
            /\ data = NoData
            /\ pc = mode
            /\ script = NoScript
            /\ retries = 0
            /\ kept = NoData
            /\ argtypes = LoadedArgtypes
            /\ threads = <<th(n1, f1), th(n2, f2)>>
            /\ last = NoLast

\* The process runs while no thread was ended by a signal.
ThreadsRun == \A j \in DOMAIN threads : threads[j].pc # "crashed"

\* Thread i: data_i = node_i.set_read_data_format(fmt_i), the native
\* registration (line 404). The call releases the interpreter lock, and the
\* other thread may run before the tuple is built.
ThreadRegisterStep(i) ==
    LET t == threads[i]
    IN  /\ ThreadsRun
        /\ t.pc \in {"start", "done"}
        /\ natFmt' = (t.node :> NatParse(t.fmt)) @@ natFmt
        /\ threads' = [threads EXCEPT ![i] =
                          [t EXCEPT !.pc = "registered", !.ds = <<>>,
                                    !.log = <<>>, !.out = Return(PyNone),
                                    !.reg = <<>>]]
        /\ UNCHANGED <<natOpen, nextSess, opened, held, cache, data, pc, script,
                       retries, kept, argtypes, last>>

\* Thread i: the tuple is built and returned (line 414).
ThreadBuildStep(i) ==
    LET t == threads[i]
        r == SetReadDataFormatRun(t.node, t.fmt, 0, Mem(ArenaBase(i), "zero"))
    IN  /\ ThreadsRun
        /\ t.pc = "registered"
        /\ argtypes' = ArgtypesAfterSetFormat(argtypes, r.out.value.ds)
        /\ threads' = [threads EXCEPT ![i] =
                          [t EXCEPT !.pc = "set", !.ds = r.out.value.ds]]
        /\ last' = Last("set_read_data_format", t.node, 0, t.fmt, r)
        /\ UNCHANGED <<natOpen, nextSess, natFmt, opened, held, cache, data, pc,
                       script, retries, kept>>

ThreadSetFormatMutUnlocked(i) == ThreadRegisterStep(i)

\* The call under the discipline of the caller: no thread starts its call
\* while another is between its registration and its read.
ThreadSetFormat(i) ==
    /\ pc = "serialized"
         => \A j \in DOMAIN threads : threads[j].pc \notin {"registered", "set"}
    /\ ThreadRegisterStep(i)

\* Thread i: node_i.read_data(100, data_i); reg is the format the native
\* library has for the node when the call arrives. When that format has
\* more fields than the tuple, the native read takes addresses from
\* variadic arguments that were not passed, which is undefined behaviour:
\* the process is ended by a signal (crash), or the call returns, and when
\* it returns with status 0 the event was written where no buffer of the
\* tuple lies (wild). After such a write the memory of the process is not
\* what the interpreter left there, and any later read of any thread goes
\* as it would (ok), is ended by a signal (crash), or fails in the argument
\* conversion of ctypes (ArgumentError) before the native call.
ThreadOutcomes == {"ok", "crash", "ArgumentError"}

ThreadReadData(i, st, oc) ==
    LET t == threads[i]
        corrupt == \E j \in DOMAIN threads : threads[j].wild
        short == Len(t.ds) < Len(natFmt[t.node])
        m == IF oc = "ArgumentError" THEN oc ELSE Marshal(argtypes, t.ds)
        crash == oc = "crash"
        r == IF m = "ok" THEN ReadDataRun(t.node, 100, t.ds, st)
             ELSE [out |-> Raise(m, NoText), log |-> <<>>, ds |-> t.ds]
    IN  /\ ThreadsRun
        /\ t.pc = "set"
        /\ crash => (m = "ok" /\ (short \/ corrupt))
        /\ oc = "ArgumentError" => corrupt
        /\ threads' = [threads EXCEPT ![i] =
                          [t EXCEPT !.pc = IF crash THEN "crashed" ELSE "done",
                                    !.ds = IF m = "ok" /\ st = 0 /\ ~crash
                                           THEN NatReadWrite(t.ds, natFmt[t.node],
                                                    Tail(r.log[1].ints), 1)
                                           ELSE t.ds,
                                    !.log = r.log,
                                    !.out = IF crash THEN Crash ELSE r.out,
                                    !.reg = natFmt[t.node],
                                    !.wild = \/ @
                                             \/ m = "ok" /\ st = 0 /\ ~crash /\ short]]
        /\ last' = [Last("read_data", t.node, 100, <<>>, r) EXCEPT
                       !.evt = 1, !.out = IF crash THEN Crash ELSE @]
        /\ UNCHANGED <<natOpen, nextSess, natFmt, opened, held, cache, data, pc,
                       script, retries, kept, argtypes>>

NextThreads ==
    \E i \in 1..2 :
        \/ ThreadSetFormat(i)
        \/ ThreadBuildStep(i)
        \/ \E st \in {0, TIMEOUT} : \E oc \in ThreadOutcomes : ThreadReadData(i, st, oc)

SpecThreads == InitThreads /\ [][NextThreads]_vars

\* C18: the argtypes of the native read stay the two declared at load time,
\* and with the threads on different endpoints every native read gets the
\* handle and timeout of its thread followed by the addresses of the tuple
\* of its thread, for the format its thread registered, however the calls of
\* the threads interleave.
C18_ArgtypesFixedAndOwnAddresses ==
    /\ argtypes = <<"c_uint64", "c_int">>
    /\ threads[1].node # threads[2].node
         => \A i \in 1..2 :
               threads[i].pc = "done"
                 => /\ Len(threads[i].log) = 1
                    /\ threads[i].log[1].f = "CAEN_FELib_ReadData"
                    /\ threads[i].log[1].h = threads[i].node
                    /\ threads[i].log[1].ints
                         = <<100>> \o [k \in DOMAIN threads[i].ds |-> threads[i].ds[k].arg]
                    /\ threads[i].reg = NatParse(threads[i].fmt)
                    /\ \A k \in DOMAIN threads[i].ds :
                          \A j \in DOMAIN threads[3 - i].ds :
                              threads[i].ds[k].arg # threads[3 - i].ds[j].arg

C18_Witness ==
    /\ pc = "free"
    /\ threads[1].node # threads[2].node
    /\ Len(threads[1].fmt) # Len(threads[2].fmt)
    /\ threads[1].pc = "done"
    /\ threads[2].pc = "done"
    /\ threads[1].log # <<>>
    /\ threads[2].log # <<>>
    /\ threads[1].out = Return(PyNone)
    /\ threads[2].out = Return(PyNone)

\* C19: with both threads on one node and each registration and read pair
\* serialized by the caller, every native read gets arguments for the format
\* the node has registered when the read arrives.
C19_SerializedReadsMatch ==
    (pc = "serialized" /\ threads[1].node = threads[2].node)
       => \A i \in 1..2 :
             /\ threads[i].pc # "crashed"
             /\ threads[i].pc = "done"
                  => /\ threads[i].reg = NatParse(threads[i].fmt)
                     /\ Len(threads[i].log[1].ints) = 1 + Len(threads[i].reg)

\* Without the serialization a read arrives with arguments of another arity
\* than the registered format has, and returns like any other read.
C19_Witness ==
    /\ pc = "free"
    /\ threads[1].node = threads[2].node
    /\ threads[1].pc = "done"
    /\ threads[1].reg # NatParse(threads[1].fmt)
    /\ Len(threads[1].log[1].ints) # 1 + Len(threads[1].reg)
    /\ threads[1].out = Return(PyNone)

(***************************************************************************)
(* _utils.py: lru_cache_method with its eviction. Each memoized method has *)
(* an lru_cache of maxsize 128 of its own, keyed by the node (compared by  *)
(* handle while it exists) and the arguments; q[m] holds the entries of    *)
(* method m, the least recently used first.                                *)
(***************************************************************************)
LruMaxSize == 128

\* The end of a call that ran the method: its result r is stored when the
\* method returned, in place of the least recently used entry when the cache
\* of the method is full.
LruStore(q, m, h, arg, r, maxsize) ==
    IF r.out.kind # "return"
    THEN [out |-> r.out, log |-> r.log, cache |-> q]
    ELSE LET e == [h |-> h, arg |-> arg, val |-> r.out.value]
         IN  [out |-> r.out, log |-> r.log,
              cache |-> [q EXCEPT ![m] = IF Len(@) >= maxsize
                                         THEN Append(Tail(@), e)
                                         ELSE Append(@, e)]]

LruCacheWith(q, m, h, arg, st, hs, maxsize) ==
    LET entries == UNION {{q[n][i] : i \in DOMAIN q[n]} : n \in DOMAIN q}
        alive == hs \cup UNION {NodesOf(e.val) : e \in entries}
        hit == {i \in DOMAIN q[m] : /\ HandleOf(q[m][i].h) = HandleOf(h)
                                    /\ q[m][i].arg = arg
                                    /\ q[m][i].h \in alive}
        drop(s, i) == SubSeq(s, 1, i - 1) \o SubSeq(s, i + 1, Len(s))
    IN  IF hit # {}
        THEN LET i == CHOOSE i \in hit : TRUE
             IN  [out |-> Return(q[m][i].val), log |-> <<>>,
                  cache |-> [q EXCEPT ![m] = Append(drop(@, i), @[i])]]
        ELSE LruStore(q, m, h, arg,
                      MethodRun(m, h, arg, st, alive \cup {e.h : e \in entries}),
                      maxsize)

LruCacheMutEvictEarly(q, m, h, arg, st, hs) ==
    LruCacheWith(q, m, h, arg, st, hs, LruMaxSize - 1)

LruCache(q, m, h, arg, st, hs) == LruCacheWith(q, m, h, arg, st, hs, LruMaxSize)

\* A caller makes a navigation call, then calls of the same method with
\* other arguments and calls of another method, then the first call again;
\* retries counts the other entries of the method inserted in between and
\* script keeps the first result. The caller keeps the nodes of the first
\* call and looks at the others without keeping them.
InitLru ==
    /\ natOpen = {1}
    /\ nextSess = 1
    /\ natFmt = <<>>
    /\ opened = <<TRUE>>
    /\ held = {Handle(1, 0)}
    /\ cache = [m \in MemoMethods |-> <<>>]
    /\ data = NoData
    /\ pc = "first"
    /\ script = NoScript
    /\ retries = 0
    /\ kept = NoData
    /\ argtypes = LoadedArgtypes
    /\ threads = <<>>
    /\ last = NoLast

LruReturn(m, h, arg, keep, r) ==
    /\ cache' = r.cache
    /\ held' = IF keep /\ r.out.kind = "return"
               THEN held \cup NodesOf(r.out.value) ELSE held
    /\ last' = [NoLast EXCEPT !.op = m, !.node = h, !.arg = arg,
                              !.log = r.log, !.out = r.out]
    /\ UNCHANGED <<natOpen, nextSess, natFmt, opened, data, kept, argtypes,
                   threads>>

LruCall(m, h, arg, st, keep) ==
    LruReturn(m, h, arg, keep, LruCache(cache, m, h, arg, st, held))

LruFirst ==
    /\ pc = "first"
    /\ LruCall("get_child_nodes", Handle(1, 0), DefaultInitialSize, 0, TRUE)
    /\ pc' = "others"
    /\ script' = [all |-> <<last'.out.value>>, pos |-> 0]
    /\ UNCHANGED retries

LruOther ==
    /\ pc = "others"
    /\ retries < MaxOthers
    /\ \E st \in {0, ErrorCodeValue("COMMUNICATION_ERROR")} :
          /\ LruCall("get_child_nodes", Handle(1, 0),
                     DefaultInitialSize + retries + 1, st, FALSE)
          /\ retries' = IF st = 0 THEN retries + 1 ELSE retries
    /\ UNCHANGED <<pc, script>>

LruOtherMethod ==
    /\ pc = "others"
    /\ \E h \in held : LruCall("get_path", h, 0, 0, TRUE)
    /\ UNCHANGED <<pc, script, retries>>

LruRepeat ==
    /\ pc = "others"
    /\ \E st \in {0, ErrorCodeValue("COMMUNICATION_ERROR")} :
          LruCall("get_child_nodes", Handle(1, 0), DefaultInitialSize, st, TRUE)
    /\ pc' = "done"
    /\ UNCHANGED <<script, retries>>

NextLru == LruFirst \/ LruOther \/ LruOtherMethod \/ LruRepeat
SpecLru == InitLru /\ [][NextLru]_vars

\* C20: with no close in between, a memoized navigation call repeated with
\* the same node and arguments returns what the first call returned and
\* makes no native call, when fewer than 128 other entries of the method
\* were inserted in between.
C20_RepeatServedFromCache ==
    (pc = "done" /\ retries < 128)
       => /\ last.log = <<>>
          /\ last.out = Return(script.all[1])

C20_Witness ==
    /\ pc = "done"
    /\ retries = 127
    /\ Len(cache["get_child_nodes"]) = 128
    /\ Len(cache["get_path"]) = 2
    /\ last.op = "get_child_nodes"
    /\ last.log = <<>>
    /\ last.out = Return(PyNodes(<<Handle(1, 1)>>))

\* C21: the close of a root node that returns empties the cache for the
\* nodes of every digitizer and leaves the other digitizers as they were:
\* open or not in the native library, their opened flags and the nodes held;
\* a navigation call that returns, served from the cache or not, gives the
\* nodes and values of the handle tree of its digitizer.
C21_CloseLeavesOtherDigitizers ==
    /\ [][ (last'.op = "close" /\ last'.out.kind = "return" /\ Idx(last'.node) = 0)
             => /\ cache' = {}
                /\ held' = held
                /\ \A s \in DOMAIN opened \ {Sess(last'.node)} :
                      /\ opened'[s] = opened[s]
                      /\ s \in natOpen' <=> s \in natOpen ]_vars
    /\ [] ( (last.op \in MemoMethods /\ last.out.kind = "return")
              => LET v == last.out.value
                     got == IF v.t = "nodes"
                            THEN PyNodes([k \in DOMAIN v.hs |-> HandleOf(v.hs[k])])
                            ELSE v
                 IN  got = IF last.op = "get_child_nodes"
                           THEN PyNodes([k \in DOMAIN TreeKids(Idx(last.node)) |->
                                           Handle(Sess(last.node),
                                                  TreeKids(Idx(last.node))[k])])
                           ELSE NavValue(last.op, last.node) )

C21_Witness ==
    /\ ~opened[1]
    /\ opened[2]
    /\ 2 \in natOpen
    /\ Handle(1, 1) \in held
    /\ cache = {[m |-> "get_child_nodes", h |-> Handle(2, 0),
                 val |-> PyNodes(<<Handle(2, 1)>>)]}
    /\ Handle(2, 1) \in held
    /\ last.op = "get_child_nodes"
    /\ last.node = Handle(2, 0)
    /\ last.log # <<>>
    /\ last.out = Return(PyNodes(<<Handle(2, 1)>>))

(***************************************************************************)
(* Node.get_node(path), Node.__getitem__ and Node.__getattr__ on the root  *)
(* of an open digitizer. A name is the sequence of its characters.         *)
(* Environment: the native lookup finds the node itself under "/" and the  *)
(* nodes of NatPaths under their names, and reports INVALID_PARAM for any  *)
(* other path.                                                             *)
(***************************************************************************)
Names ==
    { <<>>, <<"s", "c", "o", "p", "e">>, <<"c", "h">>, <<"_", "_">>,
      <<"_", "_", "x">>, <<"x", "_", "_">>, <<"_", "_", "x", "_", "_">>,
      <<"_", "_", "_">> }

\* Environment: the nodes the native lookup finds, as <<node, name, node
\* found>>: the part of the tree of a digitizer the scope example walks,
\* and the paths the documentation of Node.read_data uses (the native
\* library takes a path of several levels, and names in either case).
NatPaths ==
    { <<0, <<"s", "c", "o", "p", "e">>, 1>>,
      <<0, <<"c", "m", "d">>, 2>>,
      <<2, <<"S", "E", "N", "D", "S", "W", "T", "R", "I", "G", "G", "E",
        "R">>, 3>>,
      <<2, <<"R", "E", "S", "E", "T">>, 4>>,
      <<0, <<"p", "a", "r">>, 5>>,
      <<5, <<"N", "U", "M", "C", "H">>, 6>>,
      <<5, <<"A", "D", "C", "_", "S", "A", "M", "P", "L", "R", "A", "T",
        "E">>, 7>>,
      <<5, <<"A", "D", "C", "_", "N", "B", "I", "T">>, 8>>,
      <<5, <<"F", "W", "T", "Y", "P", "E">>, 9>>,
      <<5, <<"R", "E", "C", "O", "R", "D", "L", "E", "N", "G", "T", "H",
        "T">>, 10>>,
      <<5, <<"P", "R", "E", "T", "R", "I", "G", "G", "E", "R", "T">>, 11>>,
      <<5, <<"A", "C", "Q", "T", "R", "I", "G", "G", "E", "R", "S", "O",
        "U", "R", "C", "E">>, 12>>,
      <<0, <<"e", "n", "d", "p", "o", "i", "n", "t">>, 13>>,
      <<13, <<"s", "c", "o", "p", "e">>, 1>>,
      <<13, <<"p", "a", "r">>, 14>>,
      <<14, <<"A", "C", "T", "I", "V", "E", "E", "N", "D", "P", "O", "I",
        "N", "T">>, 15>>,
      <<2, <<"A", "R", "M", "A", "C", "Q", "U", "I", "S", "I", "T", "I",
        "O", "N">>, 16>>,
      <<2, <<"S", "W", "S", "T", "A", "R", "T", "A", "C", "Q", "U", "I",
        "S", "I", "T", "I", "O", "N">>, 17>>,
      <<0, <<"e", "n", "d", "p", "o", "i", "n", "t", "/", "s", "c", "o",
        "p", "e">>, 1>>,
      <<2, <<"a", "r", "m", "a", "c", "q", "u", "i", "s", "i", "t", "i",
        "o", "n">>, 16>>,
      <<2, <<"s", "w", "s", "t", "a", "r", "t", "a", "c", "q", "u", "i",
        "s", "i", "t", "i", "o", "n">>, 17>> }

\* get_node(path) under lru_cache_method: the entry of (node, path) is
\* served when there is one; else lib.get_handle runs, and the node of the
\* handle found is returned and cached.
GetNode(c, h, path, st, hs) ==
    LET under == {t \in NatPaths : t[1] = Idx(h) /\ <<"/">> \o t[2] = path}
        found == IF path = <<"/">> THEN Idx(h)
                 ELSE IF under = {} THEN -1
                 ELSE (CHOOSE t \in under : TRUE)[3]
        res == IF st < 0 THEN st
               ELSE IF found < 0 THEN ErrorCodeValue("INVALID_PARAM")
               ELSE 0
        call == NatCall("CAEN_FELib_GetHandle", h, path, res)
        chk == ApiErrcheck(res, call.f, GleOk)
        hit == {e \in c : /\ e.m = "get_node"
                          /\ e.h \in Alive(c, hs)
                          /\ HandleOf(e.h) = HandleOf(h)
                          /\ e.arg = path}
    IN  IF hit # {}
        THEN [out |-> Return((CHOOSE e \in hit : TRUE).val), log |-> <<>>,
              cache |-> c]
        ELSE IF chk.kind = "raise"
             THEN [out |-> chk, log |-> <<call>>, cache |-> c]
        ELSE LET v == PyNodes(<<NewNode(Handle(Sess(h), found), Used(c, hs))>>)
             IN  [out |-> Return(v), log |-> <<call>>,
                  cache |-> c \cup {[m |-> "get_node", h |-> h, arg |-> path,
                                     val |-> v]}]

GetItemMutNoSlash(c, h, index, st, hs) == GetNode(c, h, index, st, hs)

\* __getitem__(index): self.get_node(f'/{index}')
GetItem(c, h, index, st, hs) == GetNode(c, h, <<"/">> \o index, st, hs)

\* __getattr__(name), called for a name that is no attribute of the node
GetAttr(c, h, name, st, hs) ==
    IF /\ Len(name) >= 2
       /\ name[1] = "_" /\ name[2] = "_"
       /\ name[Len(name) - 1] = "_" /\ name[Len(name)] = "_"
    THEN [out |-> Raise("AttributeError", NoText), log |-> <<>>, cache |-> c]
    ELSE GetItem(c, h, name, st, hs)

InitNames ==
    /\ natOpen = {1}
    /\ nextSess = 1
    /\ natFmt = <<>>
    /\ opened = <<TRUE>>
    /\ held = {Handle(1, 0)}
    /\ cache = {}
    /\ data = NoData
    /\ pc = "idle"
    /\ script = NoScript
    /\ retries = 0
    /\ kept = NoData
    /\ argtypes = LoadedArgtypes
    /\ threads = <<>>
    /\ last = NoLast

\* node.NAME, node[NAME] or node.get_node('/NAME') on a held node; script
\* keeps the name.
Access(form, h, name, st) ==
    LET r == CASE form = "__getattr__" -> GetAttr(cache, h, name, st, held)
               [] form = "__getitem__" -> GetItem(cache, h, name, st, held)
               [] OTHER -> GetNode(cache, h, <<"/">> \o name, st, held)
    IN  /\ h \in held
        /\ cache' = r.cache
        /\ held' = IF r.out.kind = "return" THEN held \cup NodesOf(r.out.value)
                   ELSE held
        /\ script' = [all |-> name, pos |-> 0]
        /\ last' = [NoLast EXCEPT !.op = form, !.node = h, !.log = r.log,
                                  !.out = r.out]
        /\ UNCHANGED <<natOpen, nextSess, natFmt, opened, data, pc, retries, kept,
                       argtypes, threads>>

NextNames ==
    \E form \in {"__getattr__", "__getitem__", "get_node"}, h \in held,
       name \in Names, st \in {0, ErrorCodeValue("COMMUNICATION_ERROR")} :
        Access(form, h, name, st)

SpecNames == InitNames /\ [][NextNames]_vars

\* C22: node.NAME, node[NAME] and node.get_node('/NAME') do the same: in
\* any state of the cache, each gives the outcome, the native calls and the
\* cache that get_node gives for the path '/NAME', the native lookup
\* reporting what it reports; only node.NAME with a name that starts and
\* ends with '__' raises AttributeError, with no native call.
C22_AccessFormsAgree ==
    [][ last'.op \in {"__getattr__", "__getitem__", "get_node"}
          => LET name == script'.all
                 n == Len(name)
                 dunder == /\ n >= 2
                           /\ SubSeq(name, 1, 2) = <<"_", "_">>
                           /\ SubSeq(name, n - 1, n) = <<"_", "_">>
             IN  IF last'.op = "__getattr__" /\ dunder
                 THEN /\ last'.out.kind = "raise"
                      /\ last'.out.exc = "AttributeError"
                      /\ last'.log = <<>>
                      /\ cache' = cache
                 ELSE \E st \in {0, ErrorCodeValue("COMMUNICATION_ERROR")} :
                         LET g == GetNode(cache, last'.node, <<"/">> \o name, st, held)
                         IN  /\ last'.out = g.out
                             /\ last'.log = g.log
                             /\ cache' = g.cache ]_vars

C22_Witness ==
    /\ last.op = "__getattr__"
    /\ script.all = <<"s", "c", "o", "p", "e">>
    /\ last.node = Handle(1, 0)
    /\ last.log # <<>>
    /\ last.log[1].ints = <<"/", "s", "c", "o", "p", "e">>
    /\ last.out = Return(PyNodes(<<Handle(1, 1)>>))
    /\ \E e \in cache : e.h = Handle(1, 0) /\ e.arg = <<"/">>
    /\ Handle(1, 1) \in held

(***************************************************************************)
(* The consumer loop around read_data, as the documentation of             *)
(* Node.read_data writes it (device.py, lines 425 to 439): the acquisition *)
(* is started through dig.cmd, then `while True:` around a try statement   *)
(* whose handler names error.ErrorCode.Timeout and error.ErrorCode.Stop.   *)
(* The caller has registered a format on the endpoint it looked up with    *)
(* get_node and holds the tuple; the native read reports the statuses of a *)
(* script, one per call: successes and timeouts, then a negative status    *)
(* that is not TIMEOUT. The body of the loop reads the fields and cannot   *)
(* raise.                                                                  *)
(***************************************************************************)
\* error.ErrorCode.<name> as an expression: the member of that name, or
\* AttributeError when the class has none.
ErrorCodeAttr(name) ==
    IF \E i \in DOMAIN ErrorCodeMembers : ErrorCodeMembers[i].name = name
    THEN Return(PyInt(ErrorCodeValue(name)))
    ELSE Raise("AttributeError", PyText(name))

\* The try statement after one read: the body of the loop follows a read
\* that returns; an exception that is not error.Error passes through; the
\* handler of error.Error evaluates error.ErrorCode.Timeout and compares
\* ex.code with it (continue), then error.ErrorCode.Stop (break), and
\* raises ex otherwise. An exception raised while the names are evaluated
\* leaves the handler in place of ex.
LoopDecide(out) ==
    LET timeout == ErrorCodeAttr("Timeout")
        stop == ErrorCodeAttr("Stop")
    IN  IF out.kind = "return" THEN [then |-> "body", exc |-> Return(PyNone)]
        ELSE IF out.exc # "Error" THEN [then |-> "raise", exc |-> out]
        ELSE IF timeout.kind = "raise" THEN [then |-> "raise", exc |-> timeout]
        ELSE IF out.code.value = timeout.value.n
        THEN [then |-> "continue", exc |-> Return(PyNone)]
        ELSE IF stop.kind = "raise" THEN [then |-> "raise", exc |-> stop]
        ELSE IF out.code.value = stop.value.n
        THEN [then |-> "break", exc |-> Return(PyNone)]
        ELSE [then |-> "raise", exc |-> out]

Scripts ==
    { q \o <<t>> : q \in SeqsUpTo({0, TIMEOUT}, MaxTimeouts),
                   t \in NegCodes \ {TIMEOUT} }

WhileFormats == {EnergyFormat, WaveFormat}

\* The lookups made before the loop: dig.get_node("/endpoint/scope") for
\* the endpoint, then dig.cmd.armacquisition() and
\* dig.cmd.swstartacquisition(), each through Node.__getattr__ and the
\* memoized get_node. The entries stay, and keep the nodes of cmd and of
\* the two commands in existence.
WhileLookups ==
    LET root == Handle(1, 0)
        a == GetNode({}, root, <<"/", "e", "n", "d", "p", "o", "i", "n", "t",
                                 "/", "s", "c", "o", "p", "e">>, 0, {root})
        hs == {root} \cup NodesOf(a.out.value)
        b == GetAttr(a.cache, root, <<"c", "m", "d">>, 0, hs)
        cmd == b.out.value.hs[1]
        c == GetAttr(b.cache, cmd, <<"a", "r", "m", "a", "c", "q", "u", "i",
                                     "s", "i", "t", "i", "o", "n">>, 0, hs)
        d == GetAttr(c.cache, root, <<"c", "m", "d">>, 0, hs)
    IN  GetAttr(d.cache, d.out.value.hs[1],
                <<"s", "w", "s", "t", "a", "r", "t", "a", "c", "q", "u", "i",
                  "s", "i", "t", "i", "o", "n">>, 0, hs).cache

\* The caller when it first reaches `while True:`.
InitWhile ==
    \E sc \in Scripts, fmt \in WhileFormats :
        /\ natOpen = {1}
        /\ nextSess = 1
        /\ natFmt = (Endpoint :> NatParse(fmt))
        /\ opened = <<TRUE>>
        /\ held = {Handle(1, 0), Endpoint}
        /\ cache = WhileLookups
        /\ data = TupleOf(Endpoint, fmt)
        /\ pc = "read"
        /\ script = [all |-> sc, pos |-> 0, left |-> Return(PyNone)]
        /\ retries = 0
        /\ kept = NoData
        /\ argtypes = LoadedArgtypes
        /\ threads = <<>>
        /\ last = NoLast

\* One round: the read and the try statement around it. After the body of
\* the loop and after continue the loop goes round to the read; break
\* leaves it (done), and so does an exception (escaped), kept in
\* script.left. retries counts the rounds repeated by continue.
WhileRead ==
    /\ pc = "read"
    /\ script.pos < Len(script.all)
    /\ LET st == script.all[script.pos + 1]
           try == LoopDecide(ReadDataRun(Endpoint, 100, data.fields, st).out)
       IN  /\ \E evt \in IF st = 0 THEN Events ELSE {0} :
                 ReadDataStep(Endpoint, 100, st, evt)
           /\ pc' = CASE try.then = "break" -> "done"
                      [] try.then = "raise" -> "escaped"
                      [] OTHER -> "read"
           /\ retries' = IF try.then = "continue" THEN retries + 1 ELSE retries
           /\ script' = [script EXCEPT !.pos = @ + 1, !.left = try.exc]
    /\ UNCHANGED kept

SpecWhile == InitWhile /\ [][WhileRead]_vars

\* C5: the documented consumer loop, with a native read that reports
\* timeouts (and successes) and then another negative status, goes round
\* after every TIMEOUT, leaves on STOP with the exception caught, so that
\* none escapes, and lets every other negative status escape as the Error
\* of that status.
C5_ConsumerLoop ==
    LET all == script.all
        pos == script.pos
        going == \A i \in 1..pos : all[i] \in {0, TIMEOUT}
    IN  /\ pc \in {"read", "done", "escaped"}
        /\ retries = Cardinality({i \in 1..pos : all[i] = TIMEOUT})
        /\ pc = "read" <=> going
        /\ pc = "read" => pos < Len(all)
        /\ pc = "done" <=> (pos >= 1 /\ all[pos] = STOP)
        /\ pc = "done"
             => /\ last.op = "read_data"
                /\ last.out.exc = "Error"
                /\ last.out.code.name = "STOP"
                /\ script.left = Return(PyNone)
        /\ pc = "escaped" <=> (pos >= 1 /\ all[pos] \notin {0, TIMEOUT, STOP})
        /\ pc = "escaped"
             => /\ last.op = "read_data"
                /\ script.left = last.out
                /\ last.out.kind = "raise"
                /\ last.out.exc = "Error"
                /\ last.out.code.value = all[pos]

\* C24: whatever the sequence of close() calls, with block exits and garbage
\* collections of a root node, the native Close is called at most once with
\* the handle of that root; in particular an operation that called it and
\* returned is never followed by an operation that calls it again with the
\* same handle.
C24_NativeCloseAtMostOnce ==
    [][ ~ \E i \in DOMAIN last.log, j \in DOMAIN last'.log :
            /\ last.out.kind = "return"
            /\ last.log[i].f = "CAEN_FELib_Close"
            /\ last'.log[j].f = "CAEN_FELib_Close"
            /\ last.log[i].h = last'.log[j].h
            /\ Idx(last.log[i].h) = 0 ]_vars

\* C25: a close() of a root node whose native Close reports a negative
\* status raises the Error of that status and changes nothing: the opened
\* flags, the cache, the open digitizers and the nodes held are what they
\* were; every close() makes the native call, and so does the garbage
\* collection of a root whose opened flag is set.
C25_FailedCloseChangesNothing ==
    [][ /\ (last'.op = "close" /\ IsRoot(last'.node))
             => /\ Len(last'.log) = 1
                /\ last'.log[1].f = "CAEN_FELib_Close"
                /\ last'.log[1].h = HandleOf(last'.node)
                /\ last'.log[1].st < 0
                     => /\ last'.out.kind = "raise"
                        /\ last'.out.exc = "Error"
                        /\ last'.out.code.value = last'.log[1].st
                        /\ opened' = opened
                        /\ cache' = cache
                        /\ natOpen' = natOpen
                        /\ held' = held
        /\ (last'.op = "__del__" /\ IsRoot(last'.node)
              /\ last'.node \in held /\ opened[Sess(last'.node)])
             => /\ Len(last'.log) = 1
                /\ last'.log[1].f = "CAEN_FELib_Close"
                /\ last'.log[1].h = HandleOf(last'.node) ]_vars

C25_Witness ==
    /\ last.op = "close"
    /\ last.node = Handle(1, 0)
    /\ last.out.kind = "raise"
    /\ last.out.code.name = "COMMUNICATION_ERROR"
    /\ opened[1]
    /\ 1 \in natOpen
    /\ \E e \in cache : Sess(e.h) = 1
    /\ Handle(1, 1) \in held

(***************************************************************************)
(* lib.py: error reporting when CAEN_FELib_GetLastError itself fails.      *)
(* CAEN_FELib_GetLastError is registered through __set like every other    *)
(* entry point, so its own negative status enters __api_errcheck again,    *)
(* which reads last_error again. Nothing in lib.py counts the nesting; the *)
(* interpreter's recursion limit is the only stop.                         *)
(***************************************************************************)

\* Nested calls of get_last_error the interpreter allows before it raises
\* RecursionError (sys.getrecursionlimit() over the frames of one nesting).
RecursionLimit == 3

\* The native calls get_last_error makes, one per nesting, with the statuses
\* sts that CAEN_FELib_GetLastError returns in turn.
RECURSIVE GleCalls(_)
GleCalls(sts) ==
    IF sts = <<>>
    THEN <<>>
    ELSE <<NatCall("CAEN_FELib_GetLastError", 0, <<>>, Head(sts))>>
             \o (IF Head(sts) >= 0 THEN <<>> ELSE GleCalls(Tail(sts)))

InitGle ==
    \E f \in WrappedEntryPoints : \E st \in {-9, -1, 0, 2} :
    \E sts \in [1..RecursionLimit -> {-2, -1, 0}] :
    \E limit \in RecursionOutcomes :
        /\ natOpen = {1}
        /\ nextSess = 1
        /\ natFmt = <<>>
        /\ opened = <<TRUE>>
        /\ held = {}
        /\ cache = {}
        /\ data = NoData
        /\ pc = "called"
        /\ script = [all |-> [sts |-> sts, limit |-> limit], pos |-> 0]
        /\ retries = 0
        /\ kept = NoData
        /\ argtypes = LoadedArgtypes
        /\ threads = <<>>
        /\ last = [NoLast EXCEPT !.op = "native", !.arg = st,
                                 !.log = <<NatCall(f, 0, <<>>, st)>>]

\* ctypes hands the result of the native call to the errcheck callable; the
\* library answers the nested CAEN_FELib_GetLastError calls with script.all.
ErrcheckGle ==
    /\ pc = "called"
    /\ pc' = "checked"
    /\ last' = [last EXCEPT
                   !.out = ApiErrcheck(last.log[1].st, last.log[1].f, script.all),
                   !.log = IF last.log[1].st < 0
                           THEN last.log \o GleCalls(script.all.sts)
                           ELSE last.log]
    /\ UNCHANGED <<natOpen, nextSess, natFmt, opened, held, cache, data, script,
                   retries, kept, argtypes, threads>>

NextGle == ErrcheckGle

SpecGle == InitGle /\ [][NextGle]_vars

\* C26: when a wrapped call returns a negative status, the error-check
\* wrapper raises an Error whatever statuses the native
\* CAEN_FELib_GetLastError calls return: it stops by itself and never nests
\* until the interpreter's recursion limit ends it with RecursionError or
\* ctypes.ArgumentError.
C26_ErrorReportTerminatesBounded ==
    (pc = "checked" /\ last.log[1].st < 0)
        => /\ last.out.kind = "raise"
           /\ last.out.exc = "Error"

(***************************************************************************)
(* device.py: Node.close() running in one thread while another thread      *)
(* calls memoized navigation methods. close() is three statements with no  *)
(* lock around them: lib.close(self.handle), self.opened = False and       *)
(* Node.__clear_cache(), itself a loop over the five caches; the native    *)
(* call releases the interpreter lock and the interpreter switches threads *)
(* between statements, so the other thread can run between any two steps.  *)
(* script.all holds the node whose close() is under way and script.pos the *)
(* steps done.                                                             *)
(* A memoized call of the other thread is three steps as well: the lookup  *)
(* in the cache, the method with its native call, which releases the       *)
(* interpreter lock, and the insertion of the result; threads holds the    *)
(* call that is under way.                                                 *)
(***************************************************************************)
InitRace ==
    /\ natOpen = {1}
    /\ nextSess = 1
    /\ natFmt = <<>>
    /\ opened = <<TRUE>>
    /\ held = {Handle(1, 0)}
    /\ cache = {}
    /\ data = NoData
    /\ pc = "idle"
    /\ script = NoScript
    /\ retries = 0
    /\ kept = NoData
    /\ argtypes = LoadedArgtypes
    /\ threads = <<>>
    /\ last = NoLast

\* close(), first statement: lib.close(self.handle). An Error leaves close().
CloseNativeStep(h, st) ==
    LET call == NatCall("CAEN_FELib_Close", h, <<>>, st)
        chk == ApiErrcheck(st, call.f, GleOk)
    IN  /\ script = NoScript
        /\ h \in held
        /\ IsRoot(h)
        /\ last' = [NoLast EXCEPT !.op = "close", !.node = h, !.log = <<call>>,
                                  !.out = IF chk.kind = "raise" THEN chk
                                          ELSE NoLast.out]
        /\ IF chk.kind = "raise"
           THEN UNCHANGED <<natOpen, script>>
           ELSE /\ natOpen' = natOpen \ {Sess(h)}
                /\ script' = [all |-> <<h>>, pos |-> 1]
        /\ UNCHANGED <<nextSess, natFmt, opened, held, cache, data, pc, retries,
                       kept, argtypes, threads>>

\* close(), second statement: self.opened = False.
CloseFlagStep ==
    /\ script # NoScript
    /\ script.pos = 1
    /\ opened' = [opened EXCEPT ![Sess(script.all[1])] = FALSE]
    /\ script' = [script EXCEPT !.pos = 2]
    /\ UNCHANGED <<natOpen, nextSess, natFmt, held, cache, data, pc, retries,
                   kept, argtypes, threads, last>>

\* close(), third statement: Node.__clear_cache(), the loop of
\* CacheManager.clear_all. One step is one cache_clear(); the other thread
\* can run between two of them.
CloseClearStep ==
    /\ script # NoScript
    /\ script.pos >= 2
    /\ cache' = CacheClear(cache, ClearOrder[script.pos - 1])
    /\ script' = IF script.pos - 1 = Len(ClearOrder) THEN NoScript
                 ELSE [script EXCEPT !.pos = @ + 1]
    /\ UNCHANGED <<natOpen, nextSess, natFmt, opened, held, data, pc, retries,
                   kept, argtypes, threads, last>>

\* lru_cache_method, the lookup: a hit returns the cached result; after a
\* miss the method is called.
NavLookupStep(m, h) ==
    /\ threads = <<>>
    /\ h \in held
    /\ IF Cached(cache, m, h, held)
       THEN /\ last' = [NoLast EXCEPT !.op = m, !.node = h,
                          !.out = Return(CachedValue(cache, m, h, held))]
            /\ held' = held \cup NodesOf(CachedValue(cache, m, h, held))
            /\ UNCHANGED threads
       ELSE /\ Cardinality(cache) < MaxCached
            /\ threads' = <<[m |-> m, h |-> h, pos |-> 1, log |-> <<>>,
                             out |-> NoLast.out]>>
            /\ UNCHANGED <<last, held>>
    /\ UNCHANGED <<natOpen, nextSess, natFmt, opened, cache, data, pc, script,
                   retries, kept, argtypes>>

\* The method runs: the native library answers with the handles it has. An
\* Error leaves the call with nothing inserted.
NavNativeStep(st) ==
    /\ threads # <<>>
    /\ threads[1].pos = 1
    /\ st \in NavStatuses(threads[1].m, threads[1].h)
    /\ LET r == NavRun(threads[1].m, threads[1].h, st, {})
       IN  IF r.out.kind = "raise"
           THEN /\ last' = [NoLast EXCEPT !.op = threads[1].m,
                                          !.node = threads[1].h,
                                          !.log = r.log, !.out = r.out]
                /\ threads' = <<>>
           ELSE /\ threads' = <<[threads[1] EXCEPT !.pos = 2, !.log = r.log,
                                                   !.out = r.out]>>
                /\ UNCHANGED last
    /\ UNCHANGED <<natOpen, nextSess, natFmt, opened, held, cache, data, pc,
                   script, retries, kept, argtypes>>

\* The nodes of the result are made, the result is inserted into the cache,
\* whatever happened to the cache since the lookup, and returned.
NavInsertStep ==
    /\ threads # <<>>
    /\ threads[1].pos = 2
    /\ LET raw == threads[1].out.value
           v == NewNodes(IF raw.t = "nodes"
                         THEN PyNodes([k \in DOMAIN raw.hs |-> HandleOf(raw.hs[k])])
                         ELSE raw,
                         Used(cache, held))
       IN  /\ \A o \in NodesOf(v) : SerialOf(o) <= MaxNodes
           /\ cache' = cache \cup {[m |-> threads[1].m, h |-> threads[1].h,
                                     val |-> v]}
           /\ held' = held \cup NodesOf(v)
           /\ last' = [NoLast EXCEPT !.op = threads[1].m, !.node = threads[1].h,
                                     !.log = threads[1].log, !.out = Return(v)]
    /\ threads' = <<>>
    /\ UNCHANGED <<natOpen, nextSess, natFmt, opened, data, pc, script, retries,
                   kept, argtypes>>

NextRace ==
    \/ \E h \in held : \E st \in NatStatus(h, CloseStatuses) : CloseNativeStep(h, st)
    \/ CloseFlagStep
    \/ CloseClearStep
    \/ \E m \in MemoMethods : \E h \in held : NavLookupStep(m, h)
    \/ \E st \in {0, ErrorCodeValue("COMMUNICATION_ERROR"),
                   ErrorCodeValue("INVALID_PARAM"), INVALID_HANDLE} :
          NavNativeStep(st)
    \/ NavInsertStep

SpecRace == InitRace /\ [][NextRace]_vars

\* C27: with close() of a root running in one thread, a memoized navigation
\* method called by another thread on a node derived from that root never
\* returns a result from the cache once the native Close of the root has
\* completed.
C27_NoCachedResultAfterNativeClose ==
    ~ /\ last.op \in MemoMethods
      /\ Idx(last.node) # 0
      /\ Sess(last.node) \notin natOpen
      /\ last.out.kind = "return"
      /\ last.log = <<>>

(***************************************************************************)
(* device.py: the operations that carry values. None of them is decorated  *)
(* with lru_cache_method. In this part natFmt holds what the native        *)
(* library keeps for the digitizer: par, the bytes of each parameter, and  *)
(* reg, the 32 bit word of each user register. A str is the sequence of    *)
(* its code points, a bytes object the sequence of its bytes; last.arg is  *)
(* the number of the path or the address the operation was given. The     *)
(* caller holds the root node and has asked for its path once, so the      *)
(* cache has an entry.                                                     *)
(***************************************************************************)

\* str.encode() and bytes.decode(), UTF-8, for code points below 2048.
RECURSIVE Encode(_)
Encode(s) ==
    IF s = <<>> THEN <<>>
    ELSE (IF Head(s) < 128 THEN <<Head(s)>>
          ELSE <<192 + (Head(s) \div 64), 128 + (Head(s) % 64)>>)
         \o Encode(Tail(s))

RECURSIVE Decode(_)
Decode(bs) ==
    IF bs = <<>> THEN <<>>
    ELSE IF Head(bs) < 128 \/ Len(bs) = 1
         THEN <<Head(bs)>> \o Decode(Tail(bs))
         ELSE <<(Head(bs) - 192) * 64 + (bs[2] - 128)>> \o Decode(Tail(Tail(bs)))

\* What C code reads through a char pointer, and what the value attribute
\* of a ctypes string buffer gives: the bytes before the first zero byte.
CStr(bs) ==
    LET z == {i \in DOMAIN bs : bs[i] = 0}
    IN  IF z = {} THEN bs
        ELSE SubSeq(bs, 1, (CHOOSE i \in z : \A j \in z : i <= j) - 1)

ValueMethods ==
    {"get_value", "get_value_with_arg", "set_value", "send_command"}
RegisterMethods == {"get_user_register", "set_user_register"}

\* get_value never reaches the native library and answers "0".
ValueRunMutStale(m, h, path, v, st, nat) ==
    LET f == CASE m \in {"get_value", "get_value_with_arg"} -> "CAEN_FELib_GetValue"
               [] m = "set_value" -> "CAEN_FELib_SetValue"
               [] OTHER -> "CAEN_FELib_SendCommand"
        call == NatCall(f, h, IF m = "send_command" THEN <<>> ELSE Encode(v), st)
        chk == ApiErrcheck(st, f, GleOk)
    IN  IF m = "get_value"
        THEN [out |-> Return(PyStr(<<48>>)), log |-> <<>>, nat |-> nat]
        ELSE IF chk.kind = "raise"
        THEN [out |-> chk, log |-> <<call>>, nat |-> nat]
        ELSE IF m = "set_value"
        THEN [out |-> Return(PyNone), log |-> <<call>>,
              nat |-> [nat EXCEPT !.par[path] = CStr(Encode(v))]]
        ELSE IF m = "send_command"
        THEN [out |-> Return(PyNone), log |-> <<call>>, nat |-> nat]
        ELSE [out |-> Return(PyStr(Decode(CStr(nat.par[path])))),
              log |-> <<call>>, nat |-> nat]

\* Node.get_value(path), get_value_with_arg(path, v), set_value(path, v) and
\* send_command(path). Environment: CAEN_FELib_SetValue keeps the C string it
\* is given, CAEN_FELib_GetValue writes the C string it keeps.
ValueRun(m, h, path, v, st, nat) ==
    LET f == CASE m \in {"get_value", "get_value_with_arg"} -> "CAEN_FELib_GetValue"
               [] m = "set_value" -> "CAEN_FELib_SetValue"
               [] OTHER -> "CAEN_FELib_SendCommand"
        call == NatCall(f, h, IF m \in {"get_value", "send_command"} THEN <<>>
                              ELSE Encode(v), st)
        chk == ApiErrcheck(st, f, GleOk)
    IN  IF chk.kind = "raise"
        THEN [out |-> chk, log |-> <<call>>, nat |-> nat]
        ELSE IF m = "set_value"
        THEN [out |-> Return(PyNone), log |-> <<call>>,
              nat |-> [nat EXCEPT !.par[path] = CStr(Encode(v))]]
        ELSE IF m = "send_command"
        THEN [out |-> Return(PyNone), log |-> <<call>>, nat |-> nat]
        ELSE [out |-> Return(PyStr(Decode(CStr(nat.par[path])))),
              log |-> <<call>>, nat |-> nat]

\* Node.get_user_register(address) and set_user_register(address, v); the
\* argument types are c_uint32, which leaves the values of this part, all
\* from 0 to 2^31 - 1, as they are.
RegisterRun(m, h, address, v, st, nat) ==
    LET get == m = "get_user_register"
        call == NatCall(IF get THEN "CAEN_FELib_GetUserRegister"
                        ELSE "CAEN_FELib_SetUserRegister", h,
                        IF get THEN <<address>> ELSE <<address, v>>, st)
        chk == ApiErrcheck(st, call.f, GleOk)
    IN  IF chk.kind = "raise"
        THEN [out |-> chk, log |-> <<call>>, nat |-> nat]
        ELSE IF get
        THEN [out |-> Return(PyInt(nat.reg[address])), log |-> <<call>>, nat |-> nat]
        ELSE [out |-> Return(PyNone), log |-> <<call>>,
              nat |-> [nat EXCEPT !.reg[address] = v]]

\* The paths of the parameters, known to the operations by their number.
Paths == <<"/par/a", "/par/b">>
Addresses == {0}

\* The native state of this part is what the library keeps for each path
\* and address; no format is registered, and read_data is given the empty
\* tuple.
InitValue ==
    /\ natOpen = {1}
    /\ nextSess = 1
    /\ natFmt = [par |-> [p \in {Paths[k] : k \in DOMAIN Paths} |-> <<48>>], reg |-> [a \in Addresses |-> 0]]
    /\ opened = <<TRUE>>
    /\ held = {Handle(1, 0)}
    /\ cache = LruCacheMethod({}, "get_path", Handle(1, 0), 0, {Handle(1, 0)}).cache
    /\ data = NoData
    /\ pc = "idle"
    /\ script = NoScript
    /\ retries = 0
    /\ kept = NoData
    /\ argtypes = LoadedArgtypes
    /\ threads = <<>>
    /\ last = NoLast

ValueReadData ==
    \E h \in held : \E st \in NatStatus(h, {0, TIMEOUT}) :
        /\ data = NoData
        /\ ReadDataDefined(h, 100, st, IF st = 0 THEN 1 ELSE 0)
        /\ UNCHANGED <<pc, script, retries, kept>>

ValueOp(m, h, k, v, st) ==
    LET r == ValueRun(m, h, Paths[k], v, st, natFmt)
    IN  /\ h \in held
        /\ natFmt' = r.nat
        /\ last' = [NoLast EXCEPT !.op = m, !.node = h, !.arg = k,
                                  !.log = r.log, !.out = r.out]
        /\ UNCHANGED <<natOpen, nextSess, opened, held, cache, data, pc, script,
                       retries, kept, argtypes, threads>>

RegisterOp(m, h, address, v, st) ==
    LET r == RegisterRun(m, h, address, v, st, natFmt)
    IN  /\ h \in held
        /\ natFmt' = r.nat
        /\ last' = [NoLast EXCEPT !.op = m, !.node = h, !.arg = address,
                                  !.log = r.log, !.out = r.out]
        /\ UNCHANGED <<natOpen, nextSess, opened, held, cache, data, pc, script,
                       retries, kept, argtypes, threads>>

NextValue ==
    \/ \E m \in ValueMethods, h \in held, k \in DOMAIN Paths,
          v \in {<<>>, <<49>>, <<233>>, <<50, 0, 51>>} :
          \E st \in NatStatus(h, PlainStatuses) :
              /\ m \in {"get_value", "send_command"} => v = <<>>
              /\ ValueOp(m, h, k, v, st)
    \/ \E m \in RegisterMethods, h \in held, address \in Addresses,
          v \in {0, 7, 2147483647} :
          \E st \in NatStatus(h, PlainStatuses) :
              /\ m = "get_user_register" => v = 0
              /\ RegisterOp(m, h, address, v, st)
    \/ \E h \in held : \E st \in NatStatus(h, {0, TIMEOUT}) : HasData(h, 100, st)
    \/ ValueReadData
    \/ \E h \in held : \E st \in NatStatus(h, PlainStatuses) :
          GetDeviceTree(h, 2, DefaultTreeSize, st)

SpecValue == InitValue /\ [][NextValue]_vars

\* C28: every call of get_value, get_value_with_arg, set_value, send_command,
\* get_user_register, set_user_register, has_data, read_data and
\* get_device_tree makes a native call of its own entry point and leaves the
\* cache alone; a get_value or get_user_register that returns gives what the
\* native library holds for that path or address at that moment, also after
\* a set_value or set_user_register changed it.
C28_ValueOperationsNeverMemoized ==
    [][ LET o == last'
        IN  /\ o.op \in ValueMethods \cup RegisterMethods
                        \cup {"has_data", "read_data", "get_device_tree"}
                  => /\ cache' = cache
                     /\ o.log # <<>>
                     /\ o.log[1].h = o.node
                     /\ o.log[1].f =
                          (CASE o.op \in {"get_value", "get_value_with_arg"}
                                    -> "CAEN_FELib_GetValue"
                             [] o.op = "set_value" -> "CAEN_FELib_SetValue"
                             [] o.op = "send_command" -> "CAEN_FELib_SendCommand"
                             [] o.op = "get_user_register" -> "CAEN_FELib_GetUserRegister"
                             [] o.op = "set_user_register" -> "CAEN_FELib_SetUserRegister"
                             [] o.op = "has_data" -> "CAEN_FELib_HasData"
                             [] o.op = "read_data" -> "CAEN_FELib_ReadData"
                             [] OTHER -> "CAEN_FELib_GetDeviceTree")
            /\ (o.op \in {"get_value", "get_value_with_arg"} /\ o.out.kind = "return")
                  => o.out.value = PyStr(Decode(natFmt'.par[Paths[o.arg]]))
            /\ (o.op = "get_user_register" /\ o.out.kind = "return")
                  => o.out.value = PyInt(natFmt'.reg[o.arg]) ]_vars

\* A get_value returned the value a set_value stored before on the same
\* path, which is not the value the parameter had at the start.
C28_Witness ==
    /\ last.op = "get_value"
    /\ Paths[last.arg] = "/par/a"
    /\ last.out.kind = "return"
    /\ last.out.value = PyStr(<<233>>)
    /\ natFmt.par["/par/a"] = <<195, 169>>
    /\ Len(last.log) = 1

\* C29: a memoized navigation call that raises an Error adds no entry to the
\* cache and leaves no entry for that method and node; the identical call
\* made next reaches the native library again, and what it gives is decided
\* by the status of that new native call.
C29_FailedCallNotCached ==
    [][ LET o == last'
        IN  /\ (o.op \in MemoMethods /\ o.out.kind = "raise")
                  => /\ o.out.exc = "Error"
                     /\ cache' = cache
                     /\ ~Cached(cache', o.op, o.node, held')
                     /\ o.log # <<>>
            /\ (/\ last.op \in MemoMethods
                /\ last.out.kind = "raise"
                /\ o.op = last.op
                /\ o.node = last.node)
                  => /\ o.log # <<>>
                     /\ o.log[1].f = MethodFunc(o.op)
                     /\ o.log[Len(o.log)].st >= 0
                          => /\ o.out.kind = "return"
                             /\ Cached(cache', o.op, o.node, held')
                             /\ CachedValue(cache', o.op, o.node, held') = o.out.value
                     /\ o.log[Len(o.log)].st < 0
                          => /\ o.out.kind = "raise"
                             /\ o.out.code.value = o.log[Len(o.log)].st ]_vars

\* A memoized call on a node of an open digitizer failed in the native
\* library while the cache held results of other calls.
C29_Witness ==
    /\ last.op = "get_path"
    /\ HandleValid(last.node)
    /\ last.out.kind = "raise"
    /\ last.out.exc = "Error"
    /\ last.out.code.value = ErrorCodeValue("COMMUNICATION_ERROR")
    /\ cache # {}
    /\ ~Cached(cache, "get_path", last.node, held)

(***************************************************************************)
(* src/pyfelib/device.py: Device and Endpoint of the pyfelib variant. The  *)
(* native entry points have no errcheck there; the methods test the status *)
(* themselves and raise FELibError with the last-error text. In this part  *)
(* natFmt holds what the native library keeps: par, the bytes of each      *)
(* parameter, reg, the word of each user register, and fmt, the format     *)
(* registered on each endpoint handle. pyfelib has no opened flag:         *)
(* opened[s] says whether the Device object made for session s exists, and *)
(* held holds the Device and Endpoint objects the caller has, each known   *)
(* by its handle.                                                          *)
(***************************************************************************)
\* FELibError(message, code)
FELibError(message, res) ==
    [Raise("FELibError", message) EXCEPT !.code = [name |-> "", value |-> res]]

\* Endpoint.__decode_read_data_error(res)
DecodeReadDataError(f, res) ==
    IF res = -11 THEN FELibError(PyText("timeout"), res)
    ELSE IF res = -12 THEN FELibError(PyText("stop"), res)
    ELSE FELibError(NatLastErrorText(f, res), res)

InitPyfelib ==
    /\ natOpen = {}
    /\ nextSess = 0
    /\ natFmt = [par |-> [p \in {Paths[k] : k \in DOMAIN Paths} |-> <<48>>],
                 reg |-> [a \in Addresses |-> 0],
                 fmt |-> <<>>]
    /\ opened = <<>>
    /\ held = {}
    /\ cache = {}
    /\ data = NoData
    /\ pc = "idle"
    /\ script = NoScript
    /\ retries = 0
    /\ kept = NoData
    /\ argtypes = LoadedArgtypes
    /\ threads = <<>>
    /\ last = NoLast

\* Device.__init__(url): __connect, then __endpoints over the handles that
\* __get_child_handles('/endpoint') gives. ost is the status of the native
\* Open, k1 and k2 those of the two GetChildHandles calls, which report the
\* number of children when they succeed, ps that of GetNodeProperties.
\* Environment: the children of '/endpoint' are the endpoints of the tree.
DeviceInitRun(s, ost, k1, k2, ps) ==
    LET h == Handle(s, 0)
        kids == [k \in DOMAIN TreeKids(0) |-> Handle(s, TreeKids(0)[k])]
        open == NatCall("CAEN_FELib_Open", 0, <<>>, ost)
        res1 == IF k1 < 0 THEN k1 ELSE Len(kids)
        c1 == NatCall("CAEN_FELib_GetChildHandles", h, <<0>>, res1)
        res2 == IF k2 < 0 THEN k2 ELSE Len(kids)
        c2 == NatCall("CAEN_FELib_GetChildHandles", h, <<res1>>, res2)
        props == [k \in DOMAIN kids |->
                    NatCall("CAEN_FELib_GetNodeProperties", kids[k], <<>>, ps)]
        eps == SelectSeq(kids, LAMBDA e : TreeType(Idx(e)) = "ENDPOINT")
    IN  IF ost \notin {0, 14}
        THEN [out |-> FELibError(NatLastErrorText(open.f, ost), ost),
              log |-> <<open>>]
        ELSE IF res1 < 0
        THEN [out |-> FELibError(NatLastErrorText(c1.f, res1), res1),
              log |-> <<open, c1>>]
        ELSE IF res2 < 0
        THEN [out |-> FELibError(NatLastErrorText(c2.f, res2), res2),
              log |-> <<open, c1, c2>>]
        ELSE IF res2 # res1
        THEN [out |-> FELibError(PyText("unexpected size"), res2),
              log |-> <<open, c1, c2>>]
        ELSE IF kids # <<>> /\ ps # 0
        THEN [out |-> FELibError(NatLastErrorText(props[1].f, ps), ps),
              log |-> <<open, c1, c2, props[1]>>]
        ELSE [out |-> Return(PyNodes(<<h>> \o eps)),
              log |-> <<open, c1, c2>> \o props]

\* Device(url). Once __connect has returned the session is open and the
\* object has its handle: when __endpoints raises, the caller gets no
\* Device, and the object exists until it is collected. (When __connect
\* raises, the object has no handle, and its __del__ makes no native call.)
DeviceInit(ost, k1, k2, ps) ==
    LET s == nextSess + 1
        r == DeviceInitRun(s, ost, k1, k2, ps)
    IN  /\ pc = "idle"
        /\ nextSess < MaxOpens
        /\ IF ost \notin {0, 14}
           THEN UNCHANGED <<natOpen, nextSess, opened, held>>
           ELSE /\ natOpen' = natOpen \cup {s}
                /\ nextSess' = s
                /\ opened' = (s :> TRUE) @@ opened
                /\ held' = IF r.out.kind = "return"
                           THEN held \cup NodesOf(r.out.value) ELSE held
        /\ last' = [NoLast EXCEPT !.op = "pyfelib.Device",
                                  !.node = IF ost \in {0, 14} THEN Handle(s, 0) ELSE 0,
                                  !.log = r.log, !.out = r.out]
        /\ UNCHANGED <<natFmt, cache, data, pc, script, retries, kept, argtypes,
                       threads>>

\* Device.__del__, when the object of session s is collected: the native
\* Close, and FELibError on a status other than 0, which the interpreter
\* reports and drops when the collector runs __del__. The object is gone
\* either way; the Endpoint objects the caller took from endpoints stay.
DeviceDel(s, st) ==
    LET h == Handle(s, 0)
        call == NatCall("CAEN_FELib_Close", h, <<>>, st)
    IN  /\ pc = "idle"
        /\ s \in DOMAIN opened
        /\ opened[s]
        /\ natOpen' = IF st = 0 THEN natOpen \ {s} ELSE natOpen
        /\ opened' = [opened EXCEPT ![s] = FALSE]
        /\ held' = held \ {h}
        /\ last' = [NoLast EXCEPT
                       !.op = "pyfelib.Device.__del__", !.node = h,
                       !.log = <<call>>,
                       !.out = IF st # 0
                               THEN FELibError(NatLastErrorText(call.f, st), st)
                               ELSE Return(PyNone)]
        /\ UNCHANGED <<nextSess, natFmt, cache, data, pc, script, retries, kept,
                       argtypes, threads>>

DeviceMethods ==
    {"get_value", "set_value", "get_user_register", "set_user_register",
     "send_command"}

\* Device.get_value(path), set_value(path, value), get_user_register(addr),
\* set_user_register(addr, value) and send_command(path). k is the number
\* of the path or the address, v the code points of value or the word to
\* store. str.encode('ascii') raises for a code point above 127, before the
\* native call; bytes.decode('ascii') raises for a byte above 127.
\* Environment: as for ValueRun and RegisterRun, the library keeps what a
\* call that succeeds stores.
DeviceRun(m, h, k, v, st, nat) ==
    LET f == CASE m = "get_value" -> "CAEN_FELib_GetValue"
               [] m = "set_value" -> "CAEN_FELib_SetValue"
               [] m = "get_user_register" -> "CAEN_FELib_GetUserRegister"
               [] m = "set_user_register" -> "CAEN_FELib_SetUserRegister"
               [] OTHER -> "CAEN_FELib_SendCommand"
        call == NatCall(f, h, <<k>> \o v, st)
        kept_ == [out |-> Return(PyNone), log |-> <<call>>, nat |-> nat]
    IN  IF m = "set_value" /\ \E i \in DOMAIN v : v[i] > 127
        THEN [out |-> Raise("UnicodeEncodeError", NoText), log |-> <<>>,
              nat |-> nat]
        ELSE IF st # 0
        THEN [kept_ EXCEPT !.out = FELibError(NatLastErrorText(f, st), st)]
        ELSE IF m = "get_value"
        THEN LET bs == CStr(nat.par[Paths[k]])
             IN  [kept_ EXCEPT !.out =
                     IF \E i \in DOMAIN bs : bs[i] > 127
                     THEN Raise("UnicodeDecodeError", NoText)
                     ELSE Return(PyStr(bs))]
        ELSE IF m = "set_value"
        THEN [kept_ EXCEPT !.nat.par[Paths[k]] = CStr(v)]
        ELSE IF m = "get_user_register"
        THEN [kept_ EXCEPT !.out = Return(PyInt(nat.reg[k]))]
        ELSE IF m = "set_user_register"
        THEN [kept_ EXCEPT !.nat.reg[k] = v[1]]
        ELSE kept_

DeviceOp(m, h, k, v, st) ==
    LET r == DeviceRun(m, h, k, v, st, natFmt)
    IN  /\ pc = "idle"
        /\ h \in held
        /\ Idx(h) = 0
        /\ natFmt' = r.nat
        /\ last' = [NoLast EXCEPT !.op = "pyfelib." \o m, !.node = h, !.arg = k,
                                  !.log = r.log, !.out = r.out]
        /\ UNCHANGED <<natOpen, nextSess, opened, held, cache, data, pc, script,
                       retries, kept, argtypes, threads>>

\* Endpoint.set_read_data_format(json_string): the native registration, and
\* FELibError with the last-error text on a status other than 0.
EndpointSetReadDataFormat(h, fmt, st) ==
    LET call == NatCall("CAEN_FELib_SetReadDataFormat", h, <<>>, st)
    IN  /\ pc = "idle"
        /\ h \in held
        /\ Idx(h) # 0
        /\ natFmt' = IF st >= 0
                     THEN [natFmt EXCEPT !.fmt = (h :> NatParse(fmt)) @@ @]
                     ELSE natFmt
        /\ last' = [NoLast EXCEPT
                       !.op = "pyfelib.set_read_data_format", !.node = h,
                       !.log = <<call>>,
                       !.out = IF st # 0
                               THEN FELibError(NatLastErrorText(call.f, st), st)
                               ELSE Return(PyNone)]
        /\ UNCHANGED <<natOpen, nextSess, opened, held, cache, data, pc, script,
                       retries, kept, argtypes, threads>>

\* Endpoint.read_data(timeout, *args) and Endpoint.has_data(timeout); ints
\* holds the timeout and the addresses passed in args. On a status other
\* than 0 they call self.__decode_error(), a name the class does not define
\* (its method is __decode_read_data_error). A read with fewer addresses
\* than the format registered on the endpoint has fields is undefined
\* behaviour, as in Node.read_data: the process is ended by a signal
\* (crash), or the call goes on.
EndpointCall(op, f, h, ints, st, crash) ==
    LET registered == IF h \in DOMAIN natFmt.fmt THEN natFmt.fmt[h] ELSE <<>>
    IN  /\ pc = "idle"
        /\ h \in held
        /\ Idx(h) # 0
        /\ crash => (/\ f = "CAEN_FELib_ReadData"
                     /\ HandleValid(h)
                     /\ Len(ints) - 1 < Len(registered))
        /\ last' = [NoLast EXCEPT
                       !.op = op, !.node = h, !.arg = ints[1],
                       !.log = <<NatCall(f, h, ints, st)>>,
                       !.out = IF crash THEN Crash
                               ELSE IF st # 0
                               THEN Raise("AttributeError",
                                          PyText("_Endpoint__decode_error"))
                               ELSE Return(PyNone)]
        /\ pc' = IF crash THEN "crashed" ELSE pc
        /\ UNCHANGED <<natOpen, nextSess, natFmt, opened, held, cache, data,
                       script, retries, kept, argtypes, threads>>

\* The addresses a caller of pyfelib passes: none, or that of one ctypes
\* object of its own.
EndpointArgs == {<<>>, <<ArenaBase(0)>>}
DeviceStatuses == {0, ErrorCodeValue("COMMUNICATION_ERROR")}
EndpointStatuses == (-20..0) \cup {14}

NextPyfelib ==
    \/ \E ost \in OpenStatuses, k1, k2, ps \in DeviceStatuses :
          DeviceInit(ost, k1, k2, ps)
    \/ \E s \in DOMAIN opened : \E st \in NatStatus(Handle(s, 0), CloseStatuses) :
          DeviceDel(s, st)
    \/ \E m \in DeviceMethods, h \in held, k \in {1},
          v \in {<<>>, <<233>>, <<50, 0, 51>>} :
          \E st \in NatStatus(h, PlainStatuses) :
              /\ m \in {"get_value", "send_command"} => v = <<>>
              /\ m \in {"get_user_register", "set_user_register"} => k - 1 \in Addresses
              /\ m = "get_user_register" => v = <<>>
              /\ m = "set_user_register" => v = <<233>>
              /\ m = "set_value" => v # <<>>
              /\ DeviceOp(m, h, IF m \in {"get_user_register", "set_user_register"}
                                THEN k - 1 ELSE k, v, st)
    \/ \E h \in held, fmt \in {<<>>, EnergyFormat} :
          \E st \in NatStatus(h, SetFormatStatuses) :
              EndpointSetReadDataFormat(h, fmt, st)
    \/ \E h \in held, timeout \in {-1, 100} :
       \E st \in NatStatus(h, EndpointStatuses) :
          \/ \E args \in EndpointArgs, crash \in BOOLEAN :
                EndpointCall("pyfelib.read_data", "CAEN_FELib_ReadData", h,
                             <<timeout>> \o args, st, crash)
          \/ EndpointCall("pyfelib.has_data", "CAEN_FELib_HasData", h,
                          <<timeout>>, st, FALSE)

SpecPyfelib == InitPyfelib /\ [][NextPyfelib]_vars

\* C23: read_data and has_data of pyfelib return on status 0 and raise
\* FELibError on any other status: 'timeout' with code -11, 'stop' with code
\* -12, else the last-error text of the library with the status (a read the
\* native library ends with a signal aside).
C23_PyfelibDecodesReadErrors ==
    (last.op \in {"pyfelib.read_data", "pyfelib.has_data"} /\ last.out.kind # "crash")
       => last.out = IF last.log[1].st = 0 THEN Return(PyNone)
                     ELSE DecodeReadDataError(last.log[1].f, last.log[1].st)

====
